---- MODULE Spec2Model ----
(***************************************************************************)
(* Asynchronous conversion jobs of the document converter API: the HTTP    *)
(* handlers of document_converter/route.py, the Celery tasks of            *)
(* worker/tasks.py, the status surface of document_converter/service.py    *)
(* and the SQLite audit store of audit/db.py.                              *)
(*                                                                         *)
(* Conventions.  A nullable value (Python Optional, SQL NULL) is the empty *)
(* tuple None or the one-element tuple Some(x).  A filename is a tuple of  *)
(* one-character strings, so that lower(), endswith() and rsplit() are     *)
(* computed as the code computes them.  Uploaded bytes are described by    *)
(* what the code reads from them: their length, what filetype.guess_mime   *)
(* sniffs, what the HTML heuristic finds and whether they decode as UTF-8. *)
(***************************************************************************)
EXTENDS Integers, Sequences, FiniteSets, TLC

VARIABLES
    AUDIT_ENABLED,  \* [route, tasks]: the import-time flag of each module
    conversions,    \* the audit table: job_id -> row, for the rows that exist
    tasks,          \* the queue and its result backend: tasks[job_id], in order of issue
    api,            \* api[job_id]: the submission handler that issued job_id
    now,            \* the clock (ticks)
    resp            \* the last response of the API process, but for the accepted submissions

vars == <<AUDIT_ENABLED, conversions, tasks, api, now, resp>>

-----------------------------------------------------------------------------
(* Bounds of the model *)

MaxJobs == 1

MaxTime == 1

MaxBatch == 2

MaxCancel == 2

MaxRows == 2

JobIds == 1..MaxJobs

-----------------------------------------------------------------------------
(* Optional values and Python truthiness *)

None == <<>>

Some(x) == <<x>>

TruthyStr(o) == o # None /\ o[1] # ""

TruthyInt(o) == o # None /\ o[1] # 0

-----------------------------------------------------------------------------
(* Filenames: str.lower, str.endswith, rsplit(".", 1)[-1] *)

UpperLetters == <<"A","B","C","D","E","F","G","H","I","J","K","L","M",
                  "N","O","P","Q","R","S","T","U","V","W","X","Y","Z">>

LowerLetters == <<"a","b","c","d","e","f","g","h","i","j","k","l","m",
                  "n","o","p","q","r","s","t","u","v","w","x","y","z">>

LowerChar(c) ==
    IF \E i \in 1..Len(UpperLetters) : UpperLetters[i] = c
    THEN LowerLetters[CHOOSE i \in 1..Len(UpperLetters) : UpperLetters[i] = c]
    ELSE c

Lower(s) == [i \in 1..Len(s) |-> LowerChar(s[i])]

EndsWith(s, suffix) ==
    /\ Len(suffix) <= Len(s)
    /\ SubSeq(s, Len(s) - Len(suffix) + 1, Len(s)) = suffix

HasDot(s) == \E i \in 1..Len(s) : s[i] = "."

LastDot(s) == CHOOSE i \in 1..Len(s) : s[i] = "." /\ \A k \in (i+1)..Len(s) : s[k] # "."

\* filename.rsplit(".", 1)[-1] if ("." in filename and not filename.startswith(".")) else ""
ExtensionOf(filename) ==
    IF HasDot(filename) /\ filename[1] # "."
    THEN SubSeq(filename, LastDot(filename) + 1, Len(filename))
    ELSE <<>>

\* Path(filename).stem for a plain file name
Stem(filename) ==
    IF HasDot(filename) /\ LastDot(filename) > 1
    THEN SubSeq(filename, 1, LastDot(filename) - 1)
    ELSE filename

-----------------------------------------------------------------------------
(* Format dispatcher: document_converter/utils.py *)

\* The members of the InputFormat enum, in declaration order
InputFormatOrder == <<"docx", "pptx", "xlsx", "html", "image", "pdf", "asciidoc", "md", "csv">>

InputFormat == {InputFormatOrder[i] : i \in 1..Len(InputFormatOrder)}

FormatToExtensions ==
    [f \in InputFormat |->
        CASE f = "docx" -> {<<"d","o","c","x">>, <<"d","o","t","x">>, <<"d","o","c","m">>, <<"d","o","t","m">>}
          [] f = "pptx" -> {<<"p","p","t","x">>, <<"p","o","t","x">>, <<"p","p","s","x">>, <<"p","p","t","m">>, <<"p","o","t","m">>, <<"p","p","s","m">>}
          [] f = "xlsx" -> {<<"x","l","s","x">>, <<"x","l","s","m">>, <<"x","l","t","x">>, <<"x","l","t","m">>}
          [] f = "html" -> {<<"h","t","m","l">>, <<"h","t","m">>, <<"x","h","t","m","l">>}
          [] f = "image" -> {<<"j","p","g">>, <<"j","p","e","g">>, <<"p","n","g">>, <<"t","i","f">>, <<"t","i","f","f">>, <<"b","m","p">>}
          [] f = "pdf" -> {<<"p","d","f">>}
          [] f = "asciidoc" -> {<<"a","d","o","c">>, <<"a","s","c","i","i","d","o","c">>, <<"a","s","c">>}
          [] f = "md" -> {<<"m","d">>}
          [] f = "csv" -> {<<"c","s","v">>}]

FormatToMimeType ==
    [f \in InputFormat |->
        CASE f = "docx" -> <<"application/vnd.openxmlformats-officedocument.wordprocessingml.document",
                             "application/vnd.openxmlformats-officedocument.wordprocessingml.template">>
          [] f = "pptx" -> <<"application/vnd.openxmlformats-officedocument.presentationml.template",
                             "application/vnd.openxmlformats-officedocument.presentationml.slideshow",
                             "application/vnd.openxmlformats-officedocument.presentationml.presentation">>
          [] f = "xlsx" -> <<"application/vnd.openxmlformats-officedocument.spreadsheetml.sheet",
                             "application/vnd.ms-excel.sheet.macroEnabled.12",
                             "application/vnd.openxmlformats-officedocument.spreadsheetml.template">>
          [] f = "html" -> <<"text/html", "application/xhtml+xml">>
          [] f = "image" -> <<"image/png", "image/jpeg", "image/tiff", "image/gif", "image/bmp">>
          [] f = "pdf" -> <<"application/pdf">>
          [] f = "asciidoc" -> <<"text/asciidoc">>
          [] f = "md" -> <<"text/markdown", "text/x-markdown">>
          [] f = "csv" -> <<"text/csv">>]

\* MimeTypeToFormat.get(mime): the format, or None for a MIME type that is no key
MimeTypeToFormat(mime) ==
    IF \E f \in InputFormat : \E i \in 1..Len(FormatToMimeType[f]) : FormatToMimeType[f][i] = mime
    THEN Some(CHOOSE f \in InputFormat :
                \E i \in 1..Len(FormatToMimeType[f]) : FormatToMimeType[f][i] = mime)
    ELSE None

\* is_csv_file comparing the name as it is written
is_csv_file_case_sensitive(filename) ==
    Len(filename) > 0 /\ EndsWith(filename, <<".","c","s","v">>)

\* filename and filename.lower().endswith('.csv')
is_csv_file(filename) ==
    Len(filename) > 0 /\ EndsWith(Lower(filename), <<".","c","s","v">>)

\* The first format, in enum order, that lists ext; its first MIME type
mime_from_extension(ext) ==
    IF \E i \in 1..Len(InputFormatOrder) : ext \in FormatToExtensions[InputFormatOrder[i]]
    THEN LET i == CHOOSE k \in 1..Len(InputFormatOrder) :
                    /\ ext \in FormatToExtensions[InputFormatOrder[k]]
                    /\ \A m \in 1..(k-1) : ext \notin FormatToExtensions[InputFormatOrder[m]]
         IN  Some(FormatToMimeType[InputFormatOrder[i]][1])
    ELSE None

\* content.sniff is filetype.guess_mime(content); content.html is what the
\* regular expressions of detect_html_xhtml find in it
detect_html_xhtml(content) == content.html

guess_format(content, filename) ==
    IF is_csv_file(filename) THEN Some("csv")
    ELSE LET sniffed == content.sniff
             byExt == mime_from_extension(ExtensionOf(filename))
             mime1 == IF sniffed = None \/ MimeTypeToFormat(sniffed[1]) = None
                      THEN (IF byExt # None THEN byExt ELSE sniffed)
                      ELSE sniffed
             mime2 == IF TruthyStr(mime1) THEN mime1 ELSE detect_html_xhtml(content)
             mime3 == IF TruthyStr(mime2) THEN mime2 ELSE Some("text/plain")
         IN  MimeTypeToFormat(mime3[1])

LegacyExtensions == {<<".","d","o","c">>, <<".","x","l","s">>, <<".","p","p","t">>}

is_legacy_office_format(filename) ==
    \E ext \in LegacyExtensions : EndsWith(Lower(filename), ext)

is_file_format_supported(content, filename) ==
    guess_format(content, filename) # None

-----------------------------------------------------------------------------
(* audit/errors.py: the error codes and the response an MCPError gives *)

ErrorCode ==
    {"UNSUPPORTED_FORMAT", "FILE_NOT_FOUND", "FILE_TOO_LARGE", "JOB_NOT_FOUND",
     "ACCESS_DENIED", "CONVERSION_FAILED", "INVALID_PARAMETER", "INTERNAL_ERROR"}

MCPError(code, message, details) == [code |-> code, message |-> message, details |-> details]

\* MCPError.to_dict()
to_dict(e) == [error |-> e]

\* filename.rsplit(".", 1)[-1].lower() if "." in filename else ""
LegacyExt(filename) ==
    IF HasDot(filename)
    THEN Lower(SubSeq(filename, LastDot(filename) + 1, Len(filename)))
    ELSE <<>>

legacy_format_error(filename) ==
    MCPError("UNSUPPORTED_FORMAT", "old Office format",
             [filename |-> filename, detected_format |-> LegacyExt(filename)])

-----------------------------------------------------------------------------
(* Python values that reach the audit store from the postprocessing result *)

PyNone == [ty |-> "none", s |-> "", l |-> <<>>]

PyStr(s) == [ty |-> "str", s |-> s, l |-> <<>>]

PyList(l) == [ty |-> "list", s |-> "", l |-> l]

PyDict == [ty |-> "dict", s |-> "", l |-> <<>>]

\* bool(v)
Truthy(v) ==
    CASE v.ty = "none" -> FALSE
      [] v.ty = "str" -> v.s # ""
      [] v.ty = "list" -> v.l # <<>>
      [] OTHER -> TRUE

\* sqlite3 binds None and str (and numbers); a list or a dict raises
\* ProgrammingError ("Error binding parameter")
Bindable(v) == v.ty \in {"none", "str"}

ToColumn(v) == IF v.ty = "str" THEN Some(v.s) ELSE None

\* The characters of the strings the store is given as summary and as tags
Chars(str) ==
    CASE str = "" -> <<>>
      [] str = "s" -> <<"s">>
      [] str = "a" -> <<"a">>
      [] str = "b" -> <<"b">>

\* The string of the given characters
Str(chars) ==
    CASE chars = <<>> -> ""
      [] chars = <<"s">> -> "s"
      [] chars = <<"a">> -> "a"
      [] chars = <<"b">> -> "b"

RECURSIVE JoinQuoted(_, _)
\* '"x", "y"' from item i on
JoinQuoted(l, i) ==
    IF i > Len(l) THEN <<>>
    ELSE <<"\"">> \o Chars(l[i]) \o <<"\"">>
         \o (IF i < Len(l) THEN <<",", " ">> ELSE <<>>) \o JoinQuoted(l, i + 1)

\* json.dumps(v), as the characters of the JSON text: '["a", "b"]' for a list
\* of strings, '"a"' for a string
json_dumps(v) ==
    CASE v.ty = "list" -> <<"[">> \o JoinQuoted(v.l, 1) \o <<"]">>
      [] v.ty = "str" -> <<"\"">> \o Chars(v.s) \o <<"\"">>
      [] v.ty = "dict" -> <<"{", "}">>
      [] v.ty = "none" -> <<"n", "u", "l", "l">>

\* The index of the first '"' of text at or after i
NextQuote(text, i) == CHOOSE k \in i..Len(text) : text[k] = "\"" /\ \A m \in i..(k - 1) : text[m] # "\""

RECURSIVE JsonItems(_, _)
\* The strings of a JSON array from position i on
JsonItems(text, i) ==
    IF i > Len(text) \/ text[i] = "]" THEN <<>>
    ELSE IF text[i] = "\""
    THEN LET k == NextQuote(text, i + 1)
         IN  <<Str(SubSeq(text, i + 1, k - 1))>> \o JsonItems(text, k + 1)
    ELSE JsonItems(text, i + 1)

\* json.loads(text) of a text json.dumps wrote
json_loads(text) ==
    CASE text[1] = "[" -> PyList(JsonItems(text, 2))
      [] text[1] = "\"" -> PyStr(Str(SubSeq(text, 2, Len(text) - 1)))
      [] text[1] = "{" -> PyDict
      [] OTHER -> PyNone

-----------------------------------------------------------------------------
(* Audit store: audit/db.py *)

Status == {"PENDING", "IN_PROGRESS", "SUCCESS", "FAILURE"}

Terminal == {"SUCCESS", "FAILURE"}

\* CURRENT_TIMESTAMP writes 'YYYY-MM-DD HH:MM:SS'; datetime.utcnow().isoformat()
\* writes 'YYYY-MM-DDTHH:MM:SS.ffffff'
SqlTimestamp(t) == [t |-> t, fmt |-> "sql"]

IsoTimestamp(t) == [t |-> t, fmt |-> "iso"]

\* INSERT OR REPLACE: a second row with the same key replaces the first
insert_or_replace_raises(tbl, job_id) == FALSE

\* job_id is the primary key: a second row with the same key is an IntegrityError
insert_job_raises(tbl, job_id) == job_id \in DOMAIN tbl

insert_job(tbl, job_id, user_id, filename, file_type, file_size, t) ==
    [j \in DOMAIN tbl \cup {job_id} |->
        IF j = job_id
        THEN [user_id |-> user_id,
              filename |-> filename,
              file_type |-> file_type,
              file_size |-> file_size,
              status |-> "PENDING",
              created_at |-> Some(SqlTimestamp(t)),
              started_at |-> None,
              completed_at |-> None,
              pages |-> None,
              processing_time_ms |-> None,
              result_url |-> None,
              error |-> None,
              summary |-> None,
              category |-> None,
              tags |-> None,
              language |-> None]
        ELSE tbl[j]]

\* An UPDATE without its WHERE clause
update_job_status_all_rows(tbl, job_id, status) ==
    [j \in DOMAIN tbl |-> [tbl[j] EXCEPT !.status = status]]

\* UPDATE conversions SET status = ? WHERE job_id = ?
update_job_status(tbl, job_id, status) ==
    [j \in DOMAIN tbl |->
        IF j = job_id THEN [tbl[j] EXCEPT !.status = status] ELSE tbl[j]]

\* An UPDATE that sets the status and no timestamp
update_job_started_status_only(tbl, job_id, t) == update_job_status(tbl, job_id, "IN_PROGRESS")

\* An UPDATE that also stamps created_at
update_job_started_stamping_created(tbl, job_id, t) ==
    [j \in DOMAIN tbl |->
        IF j = job_id
        THEN [tbl[j] EXCEPT !.status = "IN_PROGRESS", !.started_at = Some(IsoTimestamp(t)),
                            !.created_at = Some(IsoTimestamp(t))]
        ELSE tbl[j]]

\* UPDATE conversions SET status = 'IN_PROGRESS', started_at = ? WHERE job_id = ?
update_job_started(tbl, job_id, t) ==
    [j \in DOMAIN tbl |->
        IF j = job_id
        THEN [tbl[j] EXCEPT !.status = "IN_PROGRESS", !.started_at = Some(IsoTimestamp(t))]
        ELSE tbl[j]]

\* Defaults that are empty strings rather than None
CompleteDefaultsEmptyStrings(status) ==
    [status |-> status, pages |-> None, processing_time_ms |-> None, result_url |-> None,
     error |-> None, summary |-> PyStr(""), category |-> PyStr(""), tags |-> PyNone,
     language |-> PyStr("")]

\* The keyword arguments of update_job_complete left at their defaults
CompleteDefaults(status) ==
    [status |-> status, pages |-> None, processing_time_ms |-> None, result_url |-> None,
     error |-> None, summary |-> PyNone, category |-> PyNone, tags |-> PyNone,
     language |-> PyNone]

update_job_complete_raises(c) ==
    ~Bindable(c.summary) \/ ~Bindable(c.category) \/ ~Bindable(c.language)

\* An UPDATE whose SET list has no 'error = ?'
update_job_complete_without_error(tbl, job_id, c, t) ==
    LET tags_json == IF Truthy(c.tags) THEN Some(json_dumps(c.tags)) ELSE None
    IN  [j \in DOMAIN tbl |->
            IF j = job_id
            THEN [tbl[j] EXCEPT !.status = c.status,
                                !.completed_at = Some(IsoTimestamp(t)),
                                !.pages = c.pages,
                                !.processing_time_ms = c.processing_time_ms,
                                !.result_url = c.result_url,
                                !.summary = ToColumn(c.summary),
                                !.category = ToColumn(c.category),
                                !.tags = tags_json,
                                !.language = ToColumn(c.language)]
            ELSE tbl[j]]

update_job_complete(tbl, job_id, c, t) ==
    LET tags_json == IF Truthy(c.tags) THEN Some(json_dumps(c.tags)) ELSE None
    IN  [j \in DOMAIN tbl |->
            IF j = job_id
            THEN [tbl[j] EXCEPT !.status = c.status,
                                !.completed_at = Some(IsoTimestamp(t)),
                                !.pages = c.pages,
                                !.processing_time_ms = c.processing_time_ms,
                                !.result_url = c.result_url,
                                !.error = c.error,
                                !.summary = ToColumn(c.summary),
                                !.category = ToColumn(c.category),
                                !.tags = tags_json,
                                !.language = ToColumn(c.language)]
            ELSE tbl[j]]

_row_to_job_status(job_id, row, include_user_id) ==
    [job_id |-> job_id,
     status |-> row.status,
     filename |-> row.filename,
     file_type |-> row.file_type,
     file_size |-> row.file_size,
     created_at |-> row.created_at,
     completed_at |-> row.completed_at,
     pages |-> row.pages,
     processing_time_ms |-> row.processing_time_ms,
     result_url |-> row.result_url,
     error |-> row.error,
     user_id |-> IF include_user_id THEN Some(row.user_id) ELSE None,
     summary |-> row.summary,
     category |-> row.category,
     tags |-> IF row.tags # None THEN Some(json_loads(row.tags[1])) ELSE None,
     language |-> row.language]

\* get_job without the ownership condition in its query
get_job_unscoped(tbl, job_id, user_id) ==
    IF job_id \in DOMAIN tbl
    THEN Some(_row_to_job_status(job_id, tbl[job_id], FALSE))
    ELSE None

\* user_id is the Optional[str] argument: the query is scoped only when it is truthy
get_job(tbl, job_id, user_id) ==
    IF TruthyStr(user_id)
    THEN (IF job_id \in DOMAIN tbl /\ tbl[job_id].user_id = user_id[1]
          THEN Some(_row_to_job_status(job_id, tbl[job_id], FALSE))
          ELSE None)
    ELSE (IF job_id \in DOMAIN tbl
          THEN Some(_row_to_job_status(job_id, tbl[job_id], FALSE))
          ELSE None)

\* The clock counts seconds
SecondsPerHour == 60 * 60

SecondsPerDay == 24 * SecondsPerHour

DayOf(t) == t \div SecondsPerDay

\* a >= b as SQLite compares the two TEXT values: the date first; on the same
\* date the 11th character, where ' ' of CURRENT_TIMESTAMP and datetime() sorts
\* before 'T' of isoformat(); then the time of day
TextGE(a, b) ==
    IF DayOf(a.t) # DayOf(b.t) THEN DayOf(a.t) > DayOf(b.t)
    ELSE IF a.fmt # b.fmt THEN a.fmt = "iso"
    ELSE a.t >= b.t

\* The orders in which ORDER BY created_at may return the rows ids: rows with
\* equal created_at come in any order
OrderedByCreatedAt(tbl, ids, descending) ==
    {s \in [1..Cardinality(ids) -> ids] :
        /\ \A i, k \in DOMAIN s : i # k => s[i] # s[k]
        /\ \A i, k \in DOMAIN s :
              i < k => IF descending
                       THEN TextGE(tbl[s[i]].created_at[1], tbl[s[k]].created_at[1])
                       ELSE TextGE(tbl[s[k]].created_at[1], tbl[s[i]].created_at[1])}

\* [_row_to_job_status(row) for row in rows]
RowsToJobStatus(tbl, s, include_user_id) ==
    [i \in DOMAIN s |-> _row_to_job_status(s[i], tbl[s[i]], include_user_id)]

Active == {"PENDING", "IN_PROGRESS"}

\* The query of get_all_active_jobs, which has no user_id condition
get_active_jobs_of_all_users(tbl, user_id) ==
    LET ids == {j \in DOMAIN tbl : tbl[j].status \in Active}
    IN  {RowsToJobStatus(tbl, s, FALSE) : s \in OrderedByCreatedAt(tbl, ids, FALSE)}

\* The lists get_active_jobs may return
get_active_jobs(tbl, user_id) ==
    LET ids == {j \in DOMAIN tbl : tbl[j].user_id = user_id /\ tbl[j].status \in Active}
    IN  {RowsToJobStatus(tbl, s, FALSE) : s \in OrderedByCreatedAt(tbl, ids, FALSE)}

\* A history query without the created_at condition
get_user_history_of_all_time(tbl, user_id, days, t) ==
    LET ids == {j \in DOMAIN tbl : tbl[j].user_id = user_id /\ tbl[j].status \in Terminal}
    IN  {RowsToJobStatus(tbl, s, FALSE) : s \in OrderedByCreatedAt(tbl, ids, TRUE)}

\* The lists get_user_history may return at time t;
\* datetime('now', '-' || days || ' days') is the text of t minus days days
get_user_history(tbl, user_id, days, t) ==
    LET since == SqlTimestamp(t - days * SecondsPerDay)
        ids == {j \in DOMAIN tbl :
                   /\ tbl[j].user_id = user_id
                   /\ tbl[j].status \in Terminal
                   /\ TextGE(tbl[j].created_at[1], since)}
    IN  {RowsToJobStatus(tbl, s, FALSE) : s \in OrderedByCreatedAt(tbl, ids, TRUE)}

RECURSIVE SumColumn(_, _, _)
\* SUM(column) over the rows ids, NULLs skipped; 0 for what "or 0" makes of NULL
SumColumn(tbl, ids, column) ==
    IF ids = {} THEN 0
    ELSE LET j == CHOOSE x \in ids : TRUE
             v == tbl[j][column]
         IN  (IF v = None THEN 0 ELSE v[1]) + SumColumn(tbl, ids \ {j}, column)

get_user_stats(tbl, user_id) ==
    LET ids == {j \in DOMAIN tbl : tbl[j].user_id = user_id}
        typed == {j \in ids : tbl[j].file_type # None}
    IN  [total_jobs |-> Cardinality(ids),
         total_pages |-> SumColumn(tbl, ids, "pages"),
         total_files_size |-> SumColumn(tbl, ids, "file_size"),
         total_processing_time_ms |-> SumColumn(tbl, ids, "processing_time_ms"),
         success_count |-> Cardinality({j \in ids : tbl[j].status = "SUCCESS"}),
         failure_count |-> Cardinality({j \in ids : tbl[j].status = "FAILURE"}),
         by_file_type |->
            [file_type \in {tbl[j].file_type[1] : j \in typed} |->
                Cardinality({j \in typed : tbl[j].file_type[1] = file_type})]]

\* MIN(created_at) over the rows ids, all written by CURRENT_TIMESTAMP
MinCreatedAt(tbl, ids) ==
    IF ids = {} THEN None
    ELSE LET j == CHOOSE x \in ids : \A y \in ids : TextGE(tbl[y].created_at[1],
                                                            tbl[x].created_at[1])
         IN  tbl[j].created_at

\* (julianday(completed_at) - julianday(created_at)) * 24 * 60 summed over the
\* rows ids, kept in seconds
RECURSIVE WaitSeconds(_, _)
WaitSeconds(tbl, ids) ==
    IF ids = {} THEN 0
    ELSE LET j == CHOOSE x \in ids : TRUE
         IN  (tbl[j].completed_at[1].t - tbl[j].created_at[1].t) + WaitSeconds(tbl, ids \ {j})

\* round(minutes, 2), kept in hundredths of a minute, for seconds / n seconds:
\* seconds * 100 / (60 * n), to the nearest
AvgMinutes(seconds, n) ==
    IF n = 0 THEN 0 ELSE (2 * seconds * 5 + 3 * n) \div (2 * 3 * n)

\* Statistics that report 0 minutes when no row is PENDING
get_queue_stats_zero_when_idle(tbl, t) ==
    LET pending == {j \in DOMAIN tbl : tbl[j].status = "PENDING"}
        in_progress == {j \in DOMAIN tbl : tbl[j].status = "IN_PROGRESS"}
        oldest == MinCreatedAt(tbl, pending)
        recent == {j \in DOMAIN tbl :
                      /\ tbl[j].status = "SUCCESS"
                      /\ tbl[j].completed_at # None
                      /\ TextGE(tbl[j].completed_at[1], SqlTimestamp(t - SecondsPerHour))}
    IN  [pending_count |-> Cardinality(pending),
         in_progress_count |-> Cardinality(in_progress),
         total_active |-> Cardinality(pending) + Cardinality(in_progress),
         oldest_pending_minutes |->
            IF oldest # None THEN Some((t - oldest[1].t) \div 60) ELSE Some(0),
         avg_wait_time_minutes |-> AvgMinutes(WaitSeconds(tbl, recent), Cardinality(recent))]

\* get_queue_stats at time t; avg_wait_time_minutes is in hundredths of a minute
get_queue_stats(tbl, t) ==
    LET pending == {j \in DOMAIN tbl : tbl[j].status = "PENDING"}
        in_progress == {j \in DOMAIN tbl : tbl[j].status = "IN_PROGRESS"}
        oldest == MinCreatedAt(tbl, pending)
        recent == {j \in DOMAIN tbl :
                      /\ tbl[j].status = "SUCCESS"
                      /\ tbl[j].completed_at # None
                      /\ TextGE(tbl[j].completed_at[1], SqlTimestamp(t - SecondsPerHour))}
    IN  [pending_count |-> Cardinality(pending),
         in_progress_count |-> Cardinality(in_progress),
         total_active |-> Cardinality(pending) + Cardinality(in_progress),
         oldest_pending_minutes |->
            IF oldest # None THEN Some((t - oldest[1].t) \div 60) ELSE None,
         avg_wait_time_minutes |-> AvgMinutes(WaitSeconds(tbl, recent), Cardinality(recent))]

-----------------------------------------------------------------------------
(* Conversion: DoclingDocumentConversion of document_converter/service.py.  *)
(* The collaborators (MarkItDown, Docling) are inputs: what they return or  *)
(* raise is chosen by the caller of convert.                                *)

\* A ConversionResult, as the dict model_dump gives: an absent key and a None
\* value both read as None through .get()
ConversionResult(filename, markdown, pages, error) ==
    [filename |-> filename, markdown |-> markdown, pages |-> pages, error |-> error]

Returned(result) == [raised |-> FALSE, result |-> result, exc |-> ""]

Raised(msg) ==
    [raised |-> TRUE, result |-> ConversionResult(<<>>, None, None, None), exc |-> msg]

OfficeExtensions == {<<".","d","o","c","x">>, <<".","x","l","s","x">>, <<".","p","p","t","x">>}

_is_office_document(filename) ==
    \E ext \in OfficeExtensions : EndsWith(Lower(filename), ext)

MarkdownExtensions == {<<".","m","d">>, <<".","m","a","r","k","d","o","w","n">>}

_is_markdown_document(filename) ==
    \E ext \in MarkdownExtensions : EndsWith(Lower(filename), ext)

\* content.utf8: whether the bytes decode as UTF-8; content.text: the decoded text
_convert_markdown_passthrough(filename, content) ==
    IF content.utf8
    THEN ConversionResult(Stem(filename), Some(content.text), None, None)
    ELSE ConversionResult(Stem(filename), None, None,
                          Some("Failed to decode Markdown file (encoding error)"))

\* MarkItDown either returns text or raises; the exception is caught here
_convert_with_markitdown(filename, collab) ==
    IF collab.kind = "ok"
    THEN ConversionResult(Stem(filename), Some(collab.md), None, None)
    ELSE ConversionResult(Stem(filename), None, None, Some(collab.msg))

\* convert(): what the call returns, or the exception it lets through
convert(doc, collab) ==
    IF \E ext \in LegacyExtensions : EndsWith(Lower(doc.filename), ext)
    THEN Returned(ConversionResult(Stem(doc.filename), None, None,
                                   Some("Legacy Office format not supported")))
    ELSE IF _is_office_document(doc.filename)
    THEN Returned(_convert_with_markitdown(doc.filename, collab))
    ELSE IF _is_markdown_document(doc.filename)
    THEN Returned(_convert_markdown_passthrough(doc.filename, doc.content))
    ELSE CASE collab.kind = "raise" -> Raised(collab.msg)
           [] collab.kind = "err" ->
                Returned(ConversionResult(Stem(doc.filename), None, None, Some(collab.msg)))
           [] OTHER ->
                Returned(ConversionResult(Stem(doc.filename), Some(collab.md), collab.pages, None))

-----------------------------------------------------------------------------
(* Postprocessing: audit/llm_postprocess.py.  The model's answer is an      *)
(* input: the call raises, or returns text that is no JSON, or JSON whose   *)
(* top level and fields are as given.                                       *)

Take(l, n) == SubSeq(l, 1, IF Len(l) < n THEN Len(l) ELSE n)

\* dict.get(key, default): a missing key is None in the answer
GetOr(data, field, default) == IF data[field] = None THEN default ELSE data[field][1]

\* v[:n]: slices a str or a list, raises TypeError on anything else
Sliceable(v) == v.ty \in {"str", "list"}

Slice(v, n) == IF v.ty = "list" THEN PyList(Take(v.l, n)) ELSE v

\* not markdown_content or not markdown_content.strip()
IsBlank(s) == s \in {"", " "}

\* analyze_document: None, or Some(AnalysisResult)
analyze_document(markdown_content, llm) ==
    IF IsBlank(markdown_content) THEN None
    ELSE IF llm.kind # "json" THEN None
    ELSE IF llm.top # "dict" THEN None
    ELSE LET summary == GetOr(llm, "summary", PyStr(""))
             tags == GetOr(llm, "tags", PyList(<<>>))
         IN  IF ~Sliceable(summary) \/ ~Sliceable(tags) THEN None
             ELSE Some([summary |-> Slice(summary, 200),
                        category |-> GetOr(llm, "category", PyStr("other")),
                        tags |-> Slice(tags, 5),
                        language |-> GetOr(llm, "language", PyStr("cs"))])

analyze_document_sync(markdown_content, llm) == analyze_document(markdown_content, llm)

\* convert_batch(): office documents first, then markdown documents, then the
\* documents of the general pipeline, each group in input order
convert_batch(docs, collabs) ==
    LET pairs == [i \in 1..Len(docs) |-> [doc |-> docs[i], collab |-> collabs[i]]]
        IsOffice(p) == _is_office_document(p.doc.filename)
        IsMarkdown(p) == ~IsOffice(p) /\ _is_markdown_document(p.doc.filename)
        IsDocling(p) == ~IsOffice(p) /\ ~_is_markdown_document(p.doc.filename)
        office_docs == SelectSeq(pairs, IsOffice)
        markdown_docs == SelectSeq(pairs, IsMarkdown)
        docling_docs == SelectSeq(pairs, IsDocling)
        office == [i \in 1..Len(office_docs) |->
                     _convert_with_markitdown(office_docs[i].doc.filename, office_docs[i].collab)]
        markdown == [i \in 1..Len(markdown_docs) |->
                       _convert_markdown_passthrough(markdown_docs[i].doc.filename,
                                                     markdown_docs[i].doc.content)]
        docling == [i \in 1..Len(docling_docs) |->
                      IF docling_docs[i].collab.kind = "err"
                      THEN ConversionResult(docling_docs[i].doc.filename, None, None,
                                            Some(docling_docs[i].collab.msg))
                      ELSE ConversionResult(Stem(docling_docs[i].doc.filename),
                                            Some(docling_docs[i].collab.md),
                                            docling_docs[i].collab.pages, None)]
    IN  IF \E i \in 1..Len(docling_docs) : docling_docs[i].collab.kind = "raise"
        THEN [raised |-> TRUE, results |-> <<>>,
              exc |-> docling_docs[CHOOSE i \in 1..Len(docling_docs) :
                                      /\ docling_docs[i].collab.kind = "raise"
                                      /\ \A k \in 1..(i-1) : docling_docs[k].collab.kind # "raise"
                                  ].collab.msg]
        ELSE [raised |-> FALSE, results |-> office \o markdown \o docling, exc |-> ""]

-----------------------------------------------------------------------------
(* Inputs: the uploads, the callers and what the collaborators answer *)

Content(size, sniff, html, utf8, text) ==
    [size |-> size, sniff |-> sniff, html |-> html, utf8 |-> utf8, text |-> text]

DocPdf == [filename |-> <<"a",".","p","d","f">>,
           content |-> Content(2, Some("application/pdf"), None, FALSE, "")]

DocBadMd == [filename |-> <<"n",".","m","d">>,
          content |-> Content(1, None, None, FALSE, "")]

DocDocx == [filename |-> <<"d",".","d","o","c","x">>,
            content |-> Content(3, Some("application/zip"), None, FALSE, "")]

DocLegacy == [filename |-> <<"m",".","D","O","C">>,
              content |-> Content(2, Some("application/msword"), None, FALSE, "")]

DocUnknown == [filename |-> <<"x",".","b","i","n">>,
               content |-> Content(1, None, None, TRUE, "x")]

Docs == {DocPdf, DocBadMd, DocDocx, DocLegacy, DocUnknown}

\* A spreadsheet name of the legacy kind on content that is sniffed as PDF
DocXlsPdf == [filename |-> <<"s",".","x","l","s">>,
              content |-> Content(2, Some("application/pdf"), None, FALSE, "")]

DocPpt == [filename |-> <<"p",".","P","p","t">>,
           content |-> Content(0, None, None, TRUE, "")]

\* A Word template: a ZIP container under an extension of the DOCX format
DocDotx == [filename |-> <<"t",".","d","o","t","x">>,
            content |-> Content(3, Some("application/zip"), None, FALSE, "")]

\* A PDF under the name of a Word document
DocDocxPdf == [filename |-> <<"e",".","d","o","c","x">>,
               content |-> Content(2, Some("application/pdf"), None, FALSE, "")]

\* A PDF under an extension no format lists
DocPdfUnknown == [filename |-> <<"x",".","u","n","k","n","o","w","n">>,
                  content |-> Content(2, Some("application/pdf"), None, FALSE, "")]

\* The uploads of the requests to the four conversion and submission endpoints
RouteDocs ==
    {DocPdf, DocDocx, DocUnknown, DocLegacy, DocXlsPdf, DocPpt, DocDotx, DocDocxPdf,
     DocPdfUnknown}

RouteBatchDocs == {DocPdf, DocUnknown, DocLegacy, DocXlsPdf}

RouteBatches == UNION {[1..n -> RouteBatchDocs] : n \in 1..MaxBatch}

BatchDocs == {DocPdf, DocDocx, DocLegacy}

Batches == UNION {[1..n -> BatchDocs] : n \in 1..MaxBatch}

\* The X-User-ID header of a request: absent, empty, or a user id
Headers == {None, Some(""), Some("u1"), Some("u2")}

\* The X-User-ID header of the submissions of the model
SubmitHeaders == {None, Some("u1")}

Collab(kind, md, pages, msg) == [kind |-> kind, md |-> md, pages |-> pages, msg |-> msg]

CollabOutcomes ==
    {Collab("ok", "text", Some(3), ""), Collab("ok", "", Some(0), ""),
     Collab("err", "", None, "boom"), Collab("raise", "", None, "crash")}

BatchCollabOutcomes ==
    {Collab("ok", "text", Some(3), ""), Collab("err", "", None, "boom"),
     Collab("raise", "", None, "crash")}

Llm(kind, top, summary, category, tags, language) ==
    [kind |-> kind, top |-> top, summary |-> summary, category |-> category,
     tags |-> tags, language |-> language]

LlmResponses ==
    {Llm("raise", "", None, None, None, None),
     Llm("text", "", None, None, None, None),
     Llm("json", "list", None, None, None, None),
     Llm("json", "dict", None, None, None, None),
     Llm("json", "dict", Some(PyNone), Some(PyStr("report")), Some(PyList(<<"a", "b">>)),
         Some(PyStr("en"))),
     Llm("json", "dict", Some(PyStr("s")), Some(PyDict), Some(PyList(<<"a", "b">>)),
         Some(PyStr("en"))),
     Llm("json", "dict", Some(PyStr("s")), Some(PyStr("report")), Some(PyList(<<"a", "b">>)),
         Some(PyStr("en")))}

\* convert over the uploads and collaborator answers of the model, computed once
Converted == [doc \in Docs |-> [collab \in CollabOutcomes |-> convert(doc, collab)]]

ConvertedBatch ==
    [docs \in Batches |->
        [collabs \in [1..Len(docs) -> BatchCollabOutcomes] |-> convert_batch(docs, collabs)]]

-----------------------------------------------------------------------------
(* Worker tasks: worker/tasks.py.  Each operator gives what one run of the  *)
(* task body leaves behind: the audit table, the value returned to the      *)
(* queue or the exception raised, the warnings logged and the audit calls   *)
(* made.  db_down says whether the audit store refuses the write.           *)

ProcessingTimeMs(start_time, t) == (t - start_time) * 1000

Warning(what, why) == [what |-> what, why |-> why]

\* The start write without the user_id condition
TaskStartedAnyUser(tbl, audit, job_id, user_id, db_down, t) ==
    IF audit
    THEN [tbl |-> IF db_down THEN tbl ELSE update_job_started(tbl, job_id, t),
          warnings |-> IF db_down THEN {Warning("started", "db")} ELSE {},
          calls |-> <<"update_job_started">>]
    ELSE [tbl |-> tbl, warnings |-> {}, calls |-> <<>>]

\* lines 35-40 of convert_document_task and 121-126 of convert_documents_task
TaskStarted(tbl, audit, job_id, user_id, db_down, t) ==
    IF audit /\ TruthyStr(user_id)
    THEN [tbl |-> IF db_down THEN tbl ELSE update_job_started(tbl, job_id, t),
          warnings |-> IF db_down THEN {Warning("started", "db")} ELSE {},
          calls |-> <<"update_job_started">>]
    ELSE [tbl |-> tbl, warnings |-> {}, calls |-> <<>>]

\* convert_document_task without the try/except around its completion write:
\* the failure reaches the outer handler, which writes again and re-raises
convert_document_task_unguarded(tbl, audit, job_id, user_id, doc, collab, llm, db_down, start_time, t) ==
    LET conv == Converted[doc][collab]
        result == conv.result
        ptime == ProcessingTimeMs(start_time, t)
        audited == audit /\ TruthyStr(user_id)
        called == audited /\ ~conv.raised /\ TruthyStr(result.markdown)
        analysis == IF called THEN analyze_document_sync(result.markdown[1], llm) ELSE None
        done == [CompleteDefaults("SUCCESS") EXCEPT
                    !.pages = result.pages,
                    !.processing_time_ms = Some(ptime),
                    !.summary = IF analysis # None THEN analysis[1].summary ELSE PyNone,
                    !.category = IF analysis # None THEN analysis[1].category ELSE PyNone,
                    !.tags = IF analysis # None THEN analysis[1].tags ELSE PyNone,
                    !.language = IF analysis # None THEN analysis[1].language ELSE PyNone]
        failed == [CompleteDefaults("FAILURE") EXCEPT
                    !.processing_time_ms = Some(ptime),
                    !.error = Some(conv.exc)]
        c == IF conv.raised THEN failed ELSE done
        why == IF update_job_complete_raises(c) THEN "bind" ELSE IF db_down THEN "db" ELSE "ok"
        escapes == audited /\ ~conv.raised /\ why # "ok"
    IN  [tbl |-> IF audited /\ why = "ok" THEN update_job_complete(tbl, job_id, c, t) ELSE tbl,
         raised |-> conv.raised \/ escapes,
         results |-> IF conv.raised \/ escapes THEN <<>> ELSE <<result>>,
         exc |-> IF escapes THEN "audit write failed" ELSE conv.exc,
         post |-> IF ~called THEN "not_called" ELSE IF analysis = None THEN "none" ELSE "result",
         warnings |-> IF audited /\ why # "ok" THEN {Warning("failure", why)} ELSE {},
         calls |-> IF escapes THEN <<"update_job_complete", "update_job_complete">>
                   ELSE IF audited THEN <<"update_job_complete">> ELSE <<>>]

\* lines 42-107 of convert_document_task
convert_document_task(tbl, audit, job_id, user_id, doc, collab, llm, db_down, start_time, t) ==
    LET conv == Converted[doc][collab]
        result == conv.result
        ptime == ProcessingTimeMs(start_time, t)
        audited == audit /\ TruthyStr(user_id)
        called == audited /\ ~conv.raised /\ TruthyStr(result.markdown)
        analysis == IF called THEN analyze_document_sync(result.markdown[1], llm) ELSE None
        done == [CompleteDefaults("SUCCESS") EXCEPT
                    !.pages = result.pages,
                    !.processing_time_ms = Some(ptime),
                    !.summary = IF analysis # None THEN analysis[1].summary ELSE PyNone,
                    !.category = IF analysis # None THEN analysis[1].category ELSE PyNone,
                    !.tags = IF analysis # None THEN analysis[1].tags ELSE PyNone,
                    !.language = IF analysis # None THEN analysis[1].language ELSE PyNone]
        failed == [CompleteDefaults("FAILURE") EXCEPT
                    !.processing_time_ms = Some(ptime),
                    !.error = Some(conv.exc)]
        c == IF conv.raised THEN failed ELSE done
        why == IF update_job_complete_raises(c) THEN "bind" ELSE IF db_down THEN "db" ELSE "ok"
    IN  [tbl |-> IF audited /\ why = "ok" THEN update_job_complete(tbl, job_id, c, t) ELSE tbl,
         raised |-> conv.raised,
         results |-> IF conv.raised THEN <<>> ELSE <<result>>,
         exc |-> conv.exc,
         post |-> IF ~called THEN "not_called" ELSE IF analysis = None THEN "none" ELSE "result",
         warnings |-> IF audited /\ why # "ok"
                      THEN {Warning(IF conv.raised THEN "failure" ELSE "complete", why)}
                      ELSE {},
         calls |-> IF audited THEN <<"update_job_complete">> ELSE <<>>]

\* lines 128-164 of convert_documents_task
convert_documents_task(tbl, audit, job_id, user_id, docs, collabs, db_down, start_time, t) ==
    LET conv == ConvertedBatch[docs][collabs]
        ptime == ProcessingTimeMs(start_time, t)
        audited == audit /\ TruthyStr(user_id)
        c == IF conv.raised
             THEN [CompleteDefaults("FAILURE") EXCEPT
                      !.processing_time_ms = Some(ptime), !.error = Some(conv.exc)]
             ELSE [CompleteDefaults("SUCCESS") EXCEPT !.processing_time_ms = Some(ptime)]
    IN  [tbl |-> IF audited /\ ~db_down THEN update_job_complete(tbl, job_id, c, t) ELSE tbl,
         raised |-> conv.raised,
         results |-> conv.results,
         exc |-> conv.exc,
         post |-> "not_called",
         warnings |-> IF audited /\ db_down
                      THEN {Warning(IF conv.raised THEN "failure" ELSE "complete", "db")}
                      ELSE {},
         calls |-> IF audited THEN <<"update_job_complete">> ELSE <<>>]

-----------------------------------------------------------------------------
(* Status surface: DocumentConverterService.get_single_document_task_result *)
(* and the handler get_conversion_job_status of route.py                    *)

\* AsyncResult(job_id).state: an id the queue never issued reads PENDING
AsyncState(q, job_id) == IF job_id \in DOMAIN q THEN q[job_id].state ELSE "PENDING"

ConversationJobResult(job_id, status, result, error) ==
    [job_id |-> job_id, status |-> status, result |-> result, error |-> error,
     filename |-> None, file_type |-> None, file_size |-> None, created_at |-> None,
     completed_at |-> None, pages |-> None, processing_time_ms |-> None]

\* get_single_document_task_result without the look at the payload's error
get_single_document_task_result_unchecked(q, job_id) ==
    LET state == AsyncState(q, job_id) IN
    IF state = "PENDING"
    THEN ConversationJobResult(job_id, "IN_PROGRESS", None, None)
    ELSE IF state = "SUCCESS"
    THEN ConversationJobResult(job_id, "SUCCESS", Some(q[job_id].results[1]), None)
    ELSE ConversationJobResult(job_id, "FAILURE", None, Some(q[job_id].exc))

get_single_document_task_result(q, job_id) ==
    LET state == AsyncState(q, job_id) IN
    IF state = "PENDING"
    THEN ConversationJobResult(job_id, "IN_PROGRESS", None, None)
    ELSE IF state = "SUCCESS"
    THEN LET result == q[job_id].results[1] IN
         IF q[job_id].kind = "batch"
         THEN \* task.get() is a list: result.get raises AttributeError, a 500 response
              ConversationJobResult(job_id, "HTTP_500", None, None)
         ELSE IF TruthyStr(result.error)
         THEN ConversationJobResult(job_id, "FAILURE", None, result.error)
         ELSE ConversationJobResult(job_id, "SUCCESS", Some(result), None)
    ELSE ConversationJobResult(job_id, "FAILURE", None, Some(q[job_id].exc))

\* A merge that takes the status of the audit record as well
MergeJobDataWithStatus(celery_result, job_data) ==
    [celery_result EXCEPT
        !.status = job_data.status,
        !.filename = IF job_data.filename # <<>> THEN Some(job_data.filename) ELSE @,
        !.file_type = IF TruthyStr(job_data.file_type) THEN job_data.file_type ELSE @,
        !.file_size = IF TruthyInt(job_data.file_size) THEN job_data.file_size ELSE @,
        !.created_at = IF job_data.created_at # None THEN job_data.created_at ELSE @,
        !.completed_at = IF job_data.completed_at # None THEN job_data.completed_at ELSE @,
        !.pages = IF TruthyInt(job_data.pages) THEN job_data.pages ELSE @,
        !.processing_time_ms =
            IF TruthyInt(job_data.processing_time_ms) THEN job_data.processing_time_ms ELSE @]

\* The fields of the audit record that are truthy replace those of the live view
MergeJobData(celery_result, job_data) ==
    [celery_result EXCEPT
        !.filename = IF job_data.filename # <<>> THEN Some(job_data.filename) ELSE @,
        !.file_type = IF TruthyStr(job_data.file_type) THEN job_data.file_type ELSE @,
        !.file_size = IF TruthyInt(job_data.file_size) THEN job_data.file_size ELSE @,
        !.created_at = IF job_data.created_at # None THEN job_data.created_at ELSE @,
        !.completed_at = IF job_data.completed_at # None THEN job_data.completed_at ELSE @,
        !.pages = IF TruthyInt(job_data.pages) THEN job_data.pages ELSE @,
        !.processing_time_ms =
            IF TruthyInt(job_data.processing_time_ms) THEN job_data.processing_time_ms ELSE @]

\* lookup_raises: the SQLite lookup fails, which the handler swallows
get_conversion_job_status(audit, tbl, q, job_id, x_user_id, lookup_raises) ==
    LET celery_result == get_single_document_task_result(q, job_id)
        job_data == get_job(tbl, job_id, x_user_id)
    IN  IF audit /\ ~lookup_raises /\ job_data # None
        THEN MergeJobData(celery_result, job_data[1])
        ELSE celery_result

-----------------------------------------------------------------------------
(* The state after the two processes have imported their modules *)

\* What AsyncResult(job_id).state reads while a worker runs the task: the
\* queue is configured in worker/celery_config.py; without task_track_started
\* a running task still reads PENDING
StartedState == "PENDING"

NewTask(kind, docs, user_id) ==
    [kind |-> kind, docs |-> docs, user_id |-> user_id,
     pc |-> "queued", revoked |-> FALSE, start_time |-> 0,
     state |-> "PENDING", raised |-> FALSE, results |-> <<>>, exc |-> "",
     post |-> "not_called", warnings |-> {}, calls |-> <<>>]

\* AUDIT_ENABLED is set once, by the try/except ImportError at the top of
\* route.py and of tasks.py.  Both outcomes of each import are kept.  With the
\* audit package of this repository the import of route.py succeeds and the
\* import of tasks.py fails (it names analyze_document_sync, which
\* audit/__init__.py does not export).
Init ==
    /\ AUDIT_ENABLED \in [route : BOOLEAN, tasks : BOOLEAN]
    /\ conversions = <<>>
    /\ tasks = <<>>
    /\ api = <<>>
    /\ now = 0
    /\ resp = [kind |-> "none"]

-----------------------------------------------------------------------------
(* Submission: POST /conversion-jobs and POST /batch-conversion-jobs *)

HTTPException(status_code, detail, filename) ==
    [status_code |-> status_code, detail |-> detail, filename |-> filename]

\* A response of the API process, with the request it answers
Response(kind, request, body) == [kind |-> kind, request |-> request, body |-> body]

\* The checks without the one for an unsupported format
RejectionLegacyOnly(doc) ==
    IF is_legacy_office_format(doc.filename)
    THEN Some(HTTPException(400, "Legacy Office format not supported", doc.filename))
    ELSE None

\* The checks in the other order
RejectionUnsupportedFirst(doc) ==
    IF ~is_file_format_supported(doc.content, doc.filename)
    THEN Some(HTTPException(400, "Unsupported file format", doc.filename))
    ELSE IF is_legacy_office_format(doc.filename)
    THEN Some(HTTPException(400, "Legacy Office format not supported", doc.filename))
    ELSE None

\* The checks made on one uploaded document before anything is enqueued
Rejection(doc) ==
    IF is_legacy_office_format(doc.filename)
    THEN Some(HTTPException(400, "Legacy Office format not supported", doc.filename))
    ELSE IF ~is_file_format_supported(doc.content, doc.filename)
    THEN Some(HTTPException(400, "Unsupported file format", doc.filename))
    ELSE None

\* Rejection over the uploads of the model, computed once
RejectionOf == [doc \in Docs \cup RouteDocs |-> Rejection(doc)]

\* guess_format over the uploads of the model, computed once
FormatOf == [doc \in Docs \cup RouteDocs |-> guess_format(doc.content, doc.filename)]

\* task = convert_document_task.delay(...): the queue issues the next id
Delay(kind, docs, user_id) ==
    /\ Len(tasks) < MaxJobs
    /\ tasks' = Append(tasks, NewTask(kind, docs, user_id))
    /\ api' = Append(api, [pc |-> "insert", response |-> None])

\* lines 110-141 of create_single_document_conversion_job
CreateSingleJob(document, x_user_id) ==
    IF RejectionOf[document] # None
    THEN /\ resp' = Response("POST /conversion-jobs", <<document>>, RejectionOf[document][1])
         /\ UNCHANGED <<AUDIT_ENABLED, conversions, tasks, api, now>>
    ELSE /\ Delay("single", <<document>>, x_user_id)
         /\ UNCHANGED <<AUDIT_ENABLED, conversions, now, resp>>

\* The first document of the request that is rejected, if any
FirstRejected(documents) ==
    IF \E i \in 1..Len(documents) : RejectionOf[documents[i]] # None
    THEN RejectionOf[documents[CHOOSE i \in 1..Len(documents) :
                                  /\ RejectionOf[documents[i]] # None
                                  /\ \A k \in 1..(i-1) : RejectionOf[documents[k]] = None]]
    ELSE None

\* lines 240-273 of create_batch_conversion_job
CreateBatchJob(documents, x_user_id) ==
    IF FirstRejected(documents) # None
    THEN /\ resp' = Response("POST /batch-conversion-jobs", documents,
                            FirstRejected(documents)[1])
         /\ UNCHANGED <<AUDIT_ENABLED, conversions, tasks, api, now>>
    ELSE /\ Delay("batch", documents, x_user_id)
         /\ UNCHANGED <<AUDIT_ENABLED, conversions, now, resp>>

\* What convert() hands a document to
ConvertHandsTo(filename) ==
    IF \E ext \in LegacyExtensions : EndsWith(Lower(filename), ext) THEN "nothing"
    ELSE IF _is_office_document(filename) THEN "office converter"
    ELSE IF _is_markdown_document(filename) THEN "passthrough"
    ELSE "general pipeline"

\* What convert_batch() hands a document to
ConvertBatchHandsTo(filename) ==
    IF _is_office_document(filename) THEN "office converter"
    ELSE IF _is_markdown_document(filename) THEN "passthrough"
    ELSE "general pipeline"

PdfImageExtensions ==
    {<<".","p","d","f">>, <<".","p","n","g">>, <<".","j","p","g">>, <<".","j","p","e","g">>,
     <<".","t","i","f">>, <<".","t","i","f","f">>, <<".","b","m","p">>}

_needs_hierarchical_postprocessing(filename) ==
    \E ext \in PdfImageExtensions : EndsWith(Lower(filename), ext)

\* layout: ResultPostprocessor(conv_res).process() is run on what the general
\* pipeline returns
Handed(to, filename) ==
    [to |-> to, filename |-> filename,
     layout |-> to = "general pipeline" /\ _needs_hierarchical_postprocessing(filename)]

\* A response of a direct conversion endpoint, with the documents its handler
\* handed to the converters
DirectResponse(kind, request, body, handed) ==
    [kind |-> kind, request |-> request, body |-> body, handed |-> handed]

\* POST /documents/convert: lines 39-66 of convert_single_document, and
\* convert_document of the service, which turns a result with an error into a 500
convert_single_document(document, collab) ==
    IF RejectionOf[document] # None
    THEN DirectResponse("POST /documents/convert", <<document>>, RejectionOf[document][1], {})
    ELSE LET r == convert(document, collab)
             handed == {Handed(ConvertHandsTo(document.filename), document.filename)}
         IN  IF r.raised
             THEN DirectResponse("POST /documents/convert", <<document>>,
                                 HTTPException(500, "Internal Server Error", document.filename),
                                 handed)
             ELSE IF r.result.error # None /\ r.result.error[1] # ""
             THEN DirectResponse("POST /documents/convert", <<document>>,
                                 HTTPException(500, r.result.error[1], document.filename),
                                 handed)
             ELSE DirectResponse("POST /documents/convert", <<document>>, r.result, handed)

\* The responses to each upload, over the answers of the collaborator,
\* computed once
SingleConverted ==
    [document \in RouteDocs |->
        {convert_single_document(document, collab) : collab \in CollabOutcomes}]

ConvertSingleDocument(document) ==
    /\ \E response \in SingleConverted[document] : resp' = response
    /\ UNCHANGED <<AUDIT_ENABLED, conversions, tasks, api, now>>

\* POST /documents/batch-convert: lines 76-103 of convert_multiple_documents;
\* the body of a 200 response is the list of results
convert_multiple_documents(documents, collabs) ==
    IF FirstRejected(documents) # None
    THEN DirectResponse("POST /documents/batch-convert", documents,
                        FirstRejected(documents)[1], {})
    ELSE LET r == convert_batch(documents, collabs)
             handed == {Handed(ConvertBatchHandsTo(documents[i].filename), documents[i].filename) : i \in 1..Len(documents)}
         IN  IF r.raised
             THEN DirectResponse("POST /documents/batch-convert", documents,
                                 HTTPException(500, "Internal Server Error", <<>>), handed)
             ELSE DirectResponse("POST /documents/batch-convert", documents,
                                 [results |-> r.results], handed)

\* The responses to each request, over the answers of the collaborators,
\* computed once
MultipleConverted ==
    [documents \in RouteBatches |->
        {convert_multiple_documents(documents, collabs) : collabs \in [1..Len(documents) -> BatchCollabOutcomes]}]

ConvertMultipleDocuments(documents) ==
    /\ \E response \in MultipleConverted[documents] : resp' = response
    /\ UNCHANGED <<AUDIT_ENABLED, conversions, tasks, api, now>>

DigitChars == <<"1", "2", "3", "4", "5", "6", "7", "8", "9">>

RECURSIVE JoinNames(_)
\* ", ".join([d[0] for d in doc_data])
JoinNames(docs) ==
    IF Len(docs) = 0 THEN <<>>
    ELSE IF Len(docs) = 1 THEN docs[1].filename
    ELSE docs[1].filename \o <<",", " ">> \o JoinNames(Tail(docs))

\* f"[BATCH: {len(doc_data)} files] {filenames[:100]}"
BatchFilename(docs) ==
    <<"[","B","A","T","C","H",":"," ">> \o <<DigitChars[Len(docs)]>>
        \o <<" ","f","i","l","e","s","]"," ">> \o Take(JoinNames(docs), 100)

RECURSIVE TotalSize(_)
TotalSize(docs) ==
    IF Len(docs) = 0 THEN 0 ELSE docs[1].content.size + TotalSize(Tail(docs))

BatchConversionJobResult(job_id, status) == [job_id |-> job_id, status |-> status]

\* lines 143-154 and 275-287: the insert is attempted for a truthy user id when
\* the audit package was imported; whatever it raises is swallowed
TryInsertJob(tbl, audit, job_id, user_id, filename, file_type, file_size, db_down, t) ==
    IF audit /\ TruthyStr(user_id) /\ ~db_down /\ ~insert_job_raises(tbl, job_id)
    THEN insert_job(tbl, job_id, user_id[1], filename, file_type, Some(file_size), t)
    ELSE tbl

\* The tail of the handler with an audit insert whose failure is not swallowed
SingleJobInsertAndRespondStrict(tbl, audit, job_id, task, db_down, t) ==
    LET document == task.docs[1]
        file_type == FormatOf[document]
        file_size == document.content.size
        fails == audit /\ TruthyStr(task.user_id)
                    /\ (db_down \/ insert_job_raises(tbl, job_id))
    IN  [tbl |-> TryInsertJob(tbl, audit, job_id, task.user_id, document.filename,
                              file_type, file_size, db_down, t),
         response |-> Response("POST /conversion-jobs", task.docs,
                               IF fails
                               THEN HTTPException(500, "Internal Server Error",
                                                  document.filename)
                               ELSE [ConversationJobResult(job_id, "PENDING", None, None) EXCEPT
                                        !.filename = Some(document.filename),
                                        !.file_type = file_type,
                                        !.file_size = Some(file_size)])]

\* lines 132-162 of create_single_document_conversion_job, after the enqueue
SingleJobInsertAndRespond(tbl, audit, job_id, task, db_down, t) ==
    LET document == task.docs[1]
        file_type == FormatOf[document]
        file_size == document.content.size
    IN  [tbl |-> TryInsertJob(tbl, audit, job_id, task.user_id, document.filename,
                              file_type, file_size, db_down, t),
         response |-> Response("POST /conversion-jobs", task.docs,
                               [ConversationJobResult(job_id, "PENDING", None, None) EXCEPT
                                   !.filename = Some(document.filename),
                                   !.file_type = file_type,
                                   !.file_size = Some(file_size)])]

\* lines 275-289 of create_batch_conversion_job, after the enqueue
BatchJobInsertAndRespond(tbl, audit, job_id, task, db_down, t) ==
    [tbl |-> TryInsertJob(tbl, audit, job_id, task.user_id, BatchFilename(task.docs),
                          Some("batch"), TotalSize(task.docs), db_down, t),
     response |-> Response("POST /batch-conversion-jobs", task.docs,
                           BatchConversionJobResult(job_id, "PENDING"))]

\* The handler that enqueued job_id goes on: the audit insert, then the response
CreateJobRespond(job_id) ==
    /\ job_id \in DOMAIN api
    /\ api[job_id].pc = "insert"
    /\ \E db_down \in BOOLEAN :
        LET r == IF tasks[job_id].kind = "single"
                 THEN SingleJobInsertAndRespond(conversions, AUDIT_ENABLED.route, job_id,
                                                tasks[job_id], db_down, now)
                 ELSE BatchJobInsertAndRespond(conversions, AUDIT_ENABLED.route, job_id,
                                               tasks[job_id], db_down, now)
        IN  /\ conversions' = r.tbl
            /\ api' = [api EXCEPT ![job_id] = [pc |-> "done", response |-> Some(r.response)]]
    /\ UNCHANGED <<AUDIT_ENABLED, tasks, now, resp>>

-----------------------------------------------------------------------------
(* Status: GET /conversion-jobs/{job_id} *)

\* The response of GET /batch-conversion-jobs/{job_id}
BatchJobResult(job_id, status, conversion_results, error) ==
    [job_id |-> job_id, status |-> status, conversion_results |-> conversion_results,
     error |-> error]

\* One entry of conversion_results: lines 400-407
SubResult(result) ==
    IF TruthyStr(result.error)
    THEN ConversationJobResult(None, "FAILURE", None, result.error)
    ELSE ConversationJobResult(None, "SUCCESS", Some(result), None)

\* A batch status in which one failed document fails the batch
get_batch_conversion_task_result_strict(q, job_id) ==
    LET state == AsyncState(q, job_id) IN
    IF state = "PENDING"
    THEN BatchJobResult(job_id, "IN_PROGRESS", <<>>, None)
    ELSE IF state = "SUCCESS"
    THEN LET subs == [i \in 1..Len(q[job_id].results) |-> SubResult(q[job_id].results[i])]
         IN  BatchJobResult(job_id,
                            IF \E i \in 1..Len(subs) : subs[i].status = "FAILURE"
                            THEN "FAILURE" ELSE "SUCCESS",
                            subs, None)
    ELSE BatchJobResult(job_id, "FAILURE", <<>>, Some(q[job_id].exc))

\* get_batch_conversion_task_result, for the id of a batch job or of no job
get_batch_conversion_task_result(q, job_id) ==
    LET state == AsyncState(q, job_id) IN
    IF state = "PENDING"
    THEN BatchJobResult(job_id, "IN_PROGRESS", <<>>, None)
    ELSE IF state = "SUCCESS"
    THEN BatchJobResult(job_id, "SUCCESS",
                        [i \in 1..Len(q[job_id].results) |-> SubResult(q[job_id].results[i])],
                        None)
    ELSE BatchJobResult(job_id, "FAILURE", <<>>, Some(q[job_id].exc))

GetBatchStatus(job_id) ==
    /\ resp' = Response("GET /batch-conversion-jobs/{job_id}", [job_id |-> job_id],
                        get_batch_conversion_task_result(tasks, job_id))
    /\ UNCHANGED <<AUDIT_ENABLED, conversions, tasks, api, now>>

GetStatus(job_id, x_user_id) ==
    /\ \E lookup_raises \in BOOLEAN :
          resp' = Response("GET /conversion-jobs/{job_id}",
                           [job_id |-> job_id, x_user_id |-> x_user_id],
                           get_conversion_job_status(AUDIT_ENABLED.route, conversions, tasks,
                                                     job_id, x_user_id, lookup_raises))
    /\ UNCHANGED <<AUDIT_ENABLED, conversions, tasks, api, now>>

-----------------------------------------------------------------------------
(* The worker running a task *)

\* The worker takes the task from the queue: a revoked task is discarded,
\* any other starts (lines 32-40 and 118-126 of tasks.py)
WorkerStart(job_id) ==
    /\ job_id \in DOMAIN tasks
    /\ tasks[job_id].pc = "queued"
    /\ IF tasks[job_id].revoked
       THEN /\ tasks' = [tasks EXCEPT ![job_id].pc = "done", ![job_id].state = "REVOKED"]
            /\ UNCHANGED conversions
       ELSE \E db_down \in BOOLEAN :
            LET r == TaskStarted(conversions, AUDIT_ENABLED.tasks, job_id,
                                 tasks[job_id].user_id, db_down, now)
            IN  /\ conversions' = r.tbl
                /\ tasks' = [tasks EXCEPT ![job_id].pc = "running",
                                          ![job_id].state = StartedState,
                                          ![job_id].start_time = now,
                                          ![job_id].warnings = r.warnings,
                                          ![job_id].calls = r.calls]
    /\ UNCHANGED <<AUDIT_ENABLED, api, now, resp>>

Finished(task, r) ==
    [task EXCEPT !.pc = "converted",
                 !.raised = r.raised,
                 !.results = r.results,
                 !.exc = r.exc,
                 !.post = r.post,
                 !.warnings = @ \cup r.warnings,
                 !.calls = @ \o r.calls]

\* The body of the task up to its return or raise (lines 42-107 and 128-164)
WorkerRun(job_id) ==
    /\ job_id \in DOMAIN tasks
    /\ tasks[job_id].pc = "running"
    /\ LET task == tasks[job_id] IN
       \E db_down \in BOOLEAN :
          \/ /\ task.kind = "single"
             /\ \E collab \in CollabOutcomes, llm \in LlmResponses :
                  LET r == convert_document_task(conversions, AUDIT_ENABLED.tasks, job_id,
                                                 task.user_id, task.docs[1], collab, llm,
                                                 db_down, task.start_time, now)
                  IN  /\ conversions' = r.tbl
                      /\ tasks' = [tasks EXCEPT ![job_id] = Finished(task, r)]
          \/ /\ task.kind = "batch"
             /\ \E collabs \in [1..Len(task.docs) -> BatchCollabOutcomes] :
                  LET r == convert_documents_task(conversions, AUDIT_ENABLED.tasks, job_id,
                                                  task.user_id, task.docs, collabs,
                                                  db_down, task.start_time, now)
                  IN  /\ conversions' = r.tbl
                      /\ tasks' = [tasks EXCEPT ![job_id] = Finished(task, r)]
    /\ UNCHANGED <<AUDIT_ENABLED, api, now, resp>>

\* analyze_document gets as far as litellm.completion: the worker audits the
\* job, the conversion returned markdown, and the markdown is not blank
CompletionCalled(audit, user_id, doc, collab) ==
    LET conv == Converted[doc][collab]
    IN  /\ audit /\ TruthyStr(user_id)
        /\ ~conv.raised
        /\ TruthyStr(conv.result.markdown)
        /\ ~IsBlank(conv.result.markdown[1])

\* litellm.completion is called with model, messages, max_tokens and
\* temperature only; when the endpoint never answers the call does not return,
\* and the task stays inside it
WorkerAwaitsCompletion(job_id) ==
    /\ job_id \in DOMAIN tasks
    /\ tasks[job_id].pc = "running"
    /\ tasks[job_id].kind = "single"
    /\ \E collab \in CollabOutcomes :
          CompletionCalled(AUDIT_ENABLED.tasks, tasks[job_id].user_id,
                           tasks[job_id].docs[1], collab)
    /\ tasks' = [tasks EXCEPT ![job_id].pc = "completion"]
    /\ UNCHANGED <<AUDIT_ENABLED, conversions, api, now, resp>>

\* A queue that delivers the task again after it returned
WorkerReturnRedelivered(job_id) ==
    /\ job_id \in DOMAIN tasks
    /\ tasks[job_id].pc = "converted"
    /\ tasks' = [tasks EXCEPT ![job_id].pc = "queued"]
    /\ UNCHANGED <<AUDIT_ENABLED, conversions, api, now, resp>>

\* The queue stores what the task returned or raised
WorkerReturn(job_id) ==
    /\ job_id \in DOMAIN tasks
    /\ tasks[job_id].pc = "converted"
    /\ tasks' = [tasks EXCEPT ![job_id].pc = "done",
                              ![job_id].state = IF tasks[job_id].raised
                                                THEN "FAILURE" ELSE "SUCCESS"]
    /\ UNCHANGED <<AUDIT_ENABLED, conversions, api, now, resp>>

-----------------------------------------------------------------------------
(* Cancellation: POST /conversion-jobs/batch/cancel *)

\* celery_app.control.revoke(task_id, terminate=True, signal='SIGKILL'): a queued
\* task is discarded when a worker takes it, a running task is killed, a
\* finished or unknown task is left as it is
Revoke(q, task_id) ==
    IF task_id \notin DOMAIN q THEN q
    ELSE IF q[task_id].pc = "queued" THEN [q EXCEPT ![task_id].revoked = TRUE]
    ELSE IF q[task_id].pc \in {"running", "completion", "converted"}
    THEN [q EXCEPT ![task_id].pc = "done", ![task_id].state = "REVOKED"]
    ELSE q

RECURSIVE RevokeUntilRaise(_, _, _, _)
\* A loop without the try/except around revoke: the first call that raises ends it
RevokeUntilRaise(q, task_ids, raising, i) ==
    IF i > Len(task_ids) \/ i \in raising THEN [q |-> q, cancelled_tasks |-> <<>>]
    ELSE LET rest == RevokeUntilRaise(Revoke(q, task_ids[i]), task_ids, raising, i + 1)
         IN  [q |-> rest.q, cancelled_tasks |-> <<task_ids[i]>> \o rest.cancelled_tasks]

RECURSIVE RevokeAll(_, _, _, _)
\* The loop of cancel_batch_conversion_jobs from index i on; raising is the set
\* of indices whose revoke call raises
RevokeAll(q, task_ids, raising, i) ==
    IF i > Len(task_ids) THEN [q |-> q, cancelled_tasks |-> <<>>]
    ELSE IF i \in raising THEN RevokeAll(q, task_ids, raising, i + 1)
    ELSE LET rest == RevokeAll(Revoke(q, task_ids[i]), task_ids, raising, i + 1)
         IN  [q |-> rest.q, cancelled_tasks |-> <<task_ids[i]>> \o rest.cancelled_tasks]

BatchCancelResponse(cancelled_tasks) ==
    [kind |-> "cancel", cancelled_count |-> Len(cancelled_tasks), task_ids |-> cancelled_tasks]

CancelRequestsOver(ids) == UNION {[1..n -> ids] : n \in 1..MaxCancel}

CancelRequests == CancelRequestsOver(JobIds)

\* The ids a client may send: those of the jobs and one no submission returned
CancelIds == 1..(MaxJobs + 1)

\* A handler that also marks the records of the ids it cancelled
cancel_batch_conversion_jobs_recording(task_ids, raising) ==
    LET r == RevokeAll(tasks, task_ids, raising, 1)
        Mark[i \in 0..Len(r.cancelled_tasks)] ==
            IF i = 0 THEN conversions
            ELSE update_job_status(Mark[i - 1], r.cancelled_tasks[i], "FAILURE")
    IN  /\ tasks' = r.q
        /\ conversions' = Mark[Len(r.cancelled_tasks)]
        /\ resp' = Response("POST /conversion-jobs/batch/cancel",
                            [task_ids |-> task_ids, raising |-> raising],
                            BatchCancelResponse(r.cancelled_tasks))
        /\ UNCHANGED <<AUDIT_ENABLED, api, now>>

\* The request is kept with the indices whose revoke call raised
cancel_batch_conversion_jobs(task_ids, raising) ==
    LET r == RevokeAll(tasks, task_ids, raising, 1)
    IN  /\ tasks' = r.q
        /\ resp' = Response("POST /conversion-jobs/batch/cancel",
                            [task_ids |-> task_ids, raising |-> raising],
                            BatchCancelResponse(r.cancelled_tasks))
        /\ UNCHANGED <<AUDIT_ENABLED, conversions, api, now>>

-----------------------------------------------------------------------------

\* The clock of the store advances two hours at a time
TickSeconds == 2 * SecondsPerHour

Tick ==
    /\ now < MaxTime * TickSeconds
    /\ now' = now + TickSeconds
    /\ UNCHANGED <<AUDIT_ENABLED, conversions, tasks, api, resp>>

Next ==
    \/ \E document \in Docs, x_user_id \in SubmitHeaders : CreateSingleJob(document, x_user_id)
    \/ \E documents \in Batches, x_user_id \in SubmitHeaders :
          CreateBatchJob(documents, x_user_id)
    \/ \E job_id \in JobIds : CreateJobRespond(job_id)
    \/ \E job_id \in JobIds : WorkerStart(job_id)
    \/ \E job_id \in JobIds : WorkerRun(job_id)
    \/ \E job_id \in JobIds : WorkerAwaitsCompletion(job_id)
    \/ \E job_id \in JobIds : WorkerReturn(job_id)
    \/ \E job_id \in JobIds, x_user_id \in Headers : GetStatus(job_id, x_user_id)
    \/ \E task_ids \in CancelRequests :
          \E raising \in SUBSET (1..Len(task_ids)) :
             cancel_batch_conversion_jobs(task_ids, raising)

Spec == Init /\ [][Next]_vars

\* Single submissions, worker runs and cancel requests that may name an unknown id
NextCancel ==
    \/ \E document \in Docs, x_user_id \in SubmitHeaders : CreateSingleJob(document, x_user_id)
    \/ \E job_id \in JobIds : CreateJobRespond(job_id)
    \/ \E job_id \in JobIds : WorkerStart(job_id)
    \/ \E job_id \in JobIds : WorkerRun(job_id)
    \/ \E job_id \in JobIds : WorkerAwaitsCompletion(job_id)
    \/ \E job_id \in JobIds : WorkerReturn(job_id)
    \/ \E task_ids \in CancelRequestsOver(CancelIds) :
          \E raising \in SUBSET (1..Len(task_ids)) :
             cancel_batch_conversion_jobs(task_ids, raising)

SpecCancel == Init /\ [][NextCancel]_vars

\* Submissions and worker runs only
NextRuns ==
    \/ \E document \in Docs, x_user_id \in SubmitHeaders : CreateSingleJob(document, x_user_id)
    \/ \E documents \in Batches, x_user_id \in SubmitHeaders :
          CreateBatchJob(documents, x_user_id)
    \/ \E job_id \in JobIds : CreateJobRespond(job_id)
    \/ \E job_id \in JobIds : WorkerStart(job_id)
    \/ \E job_id \in JobIds : WorkerRun(job_id)
    \/ \E job_id \in JobIds : WorkerAwaitsCompletion(job_id)
    \/ \E job_id \in JobIds : WorkerReturn(job_id)

SpecRuns == Init /\ [][NextRuns]_vars

\* The worker process takes the tasks of the queue and executes the statements
\* of a task one after the other; nothing makes a call into a library return
Fairness ==
    /\ WF_vars(\E job_id \in JobIds : WorkerStart(job_id))
    /\ WF_vars(\E job_id \in JobIds : WorkerRun(job_id))
    /\ WF_vars(\E job_id \in JobIds : WorkerReturn(job_id))

\* Single submissions and the runs of their tasks
NextSingle ==
    \/ \E document \in Docs, x_user_id \in SubmitHeaders : CreateSingleJob(document, x_user_id)
    \/ \E job_id \in JobIds : CreateJobRespond(job_id)
    \/ \E job_id \in JobIds : WorkerStart(job_id)
    \/ \E job_id \in JobIds : WorkerRun(job_id)
    \/ \E job_id \in JobIds : WorkerAwaitsCompletion(job_id)
    \/ \E job_id \in JobIds : WorkerReturn(job_id)

SpecLive == Init /\ [][NextSingle]_vars /\ Fairness

\* The handler runs on to its response once it has queued the task
ApiFairness == WF_vars(\E job_id \in JobIds : CreateJobRespond(job_id))

\* The API process and the worker both fairly scheduled
SpecFair == Init /\ [][NextSingle]_vars /\ Fairness /\ ApiFairness

-----------------------------------------------------------------------------
(* The audit store on its own: any caller of the functions audit/__init__.py *)
(* exports, in any order                                                     *)

StoreIds == 1..MaxRows

StoreInserts ==
    {[user_id |-> "u1", filename |-> DocPdf.filename, file_type |-> Some("pdf"),
      file_size |-> Some(2)],
     [user_id |-> "u2", filename |-> DocBadMd.filename, file_type |-> None,
      file_size |-> Some(0)]}

StoreCompletions ==
    {[CompleteDefaults("SUCCESS") EXCEPT
         !.pages = Some(3), !.processing_time_ms = Some(1000),
         !.summary = PyStr("s"), !.category = PyStr("report"),
         !.tags = PyList(<<"a", "b">>), !.language = PyStr("en")],
     [CompleteDefaults("SUCCESS") EXCEPT
         !.pages = Some(0), !.processing_time_ms = Some(0), !.tags = PyList(<<>>)],
     [CompleteDefaults("FAILURE") EXCEPT
         !.processing_time_ms = Some(0), !.error = Some("crash")]}

-----------------------------------------------------------------------------
(* search_user_history *)

RECURSIVE LikeFrom(_, _, _, _)
\* SQLite LIKE without ESCAPE, pattern from i against text from k: % is any run
\* of characters, _ is any one character, letters match in either case
LikeFrom(pattern, i, text, k) ==
    IF i > Len(pattern) THEN k > Len(text)
    ELSE IF pattern[i] = "%"
    THEN \E m \in k..(Len(text) + 1) : LikeFrom(pattern, i + 1, text, m)
    ELSE /\ k <= Len(text)
         /\ pattern[i] = "_" \/ LowerChar(pattern[i]) = LowerChar(text[k])
         /\ LikeFrom(pattern, i + 1, text, k + 1)

\* search_pattern = f"%{query}%"
SearchPattern(query) == <<"%">> \o query \o <<"%">>

\* Query strings: letters of a filename, of a summary and of a tag, a letter
\* that only category and error have, an upper-case letter, and the two
\* characters LIKE reads as wildcards
PlainQueries == {<<"a">>, <<"s">>, <<"r">>, <<"m", "d">>, <<"A">>}

Queries == PlainQueries \cup {<<"%">>, <<"n", "_", "m">>}

\* The texts the searched columns hold in the tables of the store
SearchedTexts ==
    {a.filename : a \in StoreInserts}
        \cup {Chars(c.summary.s) : c \in {d \in StoreCompletions : d.summary.ty = "str"}}
        \cup {json_dumps(c.tags) : c \in {d \in StoreCompletions : Truthy(d.tags)}}

\* text LIKE search_pattern over the queries and the texts of the model,
\* computed once
LikeOf ==
    [query \in Queries |->
        [text \in SearchedTexts |-> LikeFrom(SearchPattern(query), 1, text, 1)]]

\* column LIKE ?, which is not true for a NULL column
Like(column, query) == column # None /\ LikeOf[query][column[1]]

SearchMatches(row, query) ==
    \/ Like(Some(row.filename), query)
    \/ Like(IF row.summary = None THEN None ELSE Some(Chars(row.summary[1])), query)
    \/ Like(IF row.tags = None THEN None ELSE Some(row.tags[1]), query)

\* A search without the status condition
search_user_history_of_any_status(tbl, user_id, query) ==
    LET ids == {j \in DOMAIN tbl : tbl[j].user_id = user_id /\ SearchMatches(tbl[j], query)}
    IN  {RowsToJobStatus(tbl, s, FALSE) : s \in OrderedByCreatedAt(tbl, ids, TRUE)}

\* The lists search_user_history may return
search_user_history(tbl, user_id, query) ==
    LET ids == {j \in DOMAIN tbl :
                   /\ tbl[j].user_id = user_id
                   /\ tbl[j].status \in Terminal
                   /\ SearchMatches(tbl[j], query)}
    IN  {RowsToJobStatus(tbl, s, FALSE) : s \in OrderedByCreatedAt(tbl, ids, TRUE)}

-----------------------------------------------------------------------------

InitStore ==
    /\ AUDIT_ENABLED = [route |-> TRUE, tasks |-> FALSE]
    /\ conversions = <<>>
    /\ tasks = <<>>
    /\ api = <<>>
    /\ now = 0
    /\ resp = [kind |-> "none"]

\* What the caller of a store function sees: the call it made and whether it raised
StoreCall(call, job_id, raised) ==
    [kind |-> "audit", call |-> call, job_id |-> job_id, raised |-> raised]

\* insert_job: an existing job_id raises IntegrityError and writes nothing
StoreInsert(job_id, a) ==
    /\ conversions' = IF insert_job_raises(conversions, job_id) THEN conversions
                      ELSE insert_job(conversions, job_id, a.user_id, a.filename,
                                      a.file_type, a.file_size, now)
    /\ resp' = StoreCall("insert_job", job_id, insert_job_raises(conversions, job_id))
    /\ UNCHANGED <<AUDIT_ENABLED, tasks, api, now>>

\* insert_job(job_id, None, filename): user_id TEXT NOT NULL raises IntegrityError
StoreInsertWithoutUser(job_id) ==
    /\ resp' = StoreCall("insert_job(user_id=None)", job_id, TRUE)
    /\ UNCHANGED <<AUDIT_ENABLED, conversions, tasks, api, now>>

StoreUpdateStatus(job_id, status) ==
    /\ conversions' = update_job_status(conversions, job_id, status)
    /\ resp' = StoreCall("update_job_status", job_id, FALSE)
    /\ UNCHANGED <<AUDIT_ENABLED, tasks, api, now>>

StoreUpdateStarted(job_id) ==
    /\ conversions' = update_job_started(conversions, job_id, now)
    /\ resp' = StoreCall("update_job_started", job_id, FALSE)
    /\ UNCHANGED <<AUDIT_ENABLED, tasks, api, now>>

StoreUpdateComplete(job_id, c) ==
    /\ conversions' = IF update_job_complete_raises(c) THEN conversions
                      ELSE update_job_complete(conversions, job_id, c, now)
    /\ resp' = StoreCall("update_job_complete", job_id, update_job_complete_raises(c))
    /\ UNCHANGED <<AUDIT_ENABLED, tasks, api, now>>

NextStore ==
    \/ \E job_id \in StoreIds, a \in StoreInserts : StoreInsert(job_id, a)
    \/ \E job_id \in StoreIds : StoreInsertWithoutUser(job_id)
    \/ \E job_id \in StoreIds, status \in Status : StoreUpdateStatus(job_id, status)
    \/ \E job_id \in StoreIds : StoreUpdateStarted(job_id)
    \/ \E job_id \in StoreIds, c \in StoreCompletions : StoreUpdateComplete(job_id, c)
    \/ Tick

SpecStore == InitStore /\ [][NextStore]_vars

\* The store as the queue statistics see it: the jobs of one user, inserted,
\* started and completed over a longer time
MaxQueueTime == 2

QueueInserts == {a \in StoreInserts : a.user_id = "u1"}

QueueCompletions == {c \in StoreCompletions : c.error # None \/ c.summary # PyNone}

TickQueue ==
    /\ now < MaxQueueTime * TickSeconds
    /\ now' = now + TickSeconds
    /\ UNCHANGED <<AUDIT_ENABLED, conversions, tasks, api, resp>>

NextQueue ==
    \/ \E job_id \in StoreIds, a \in QueueInserts : StoreInsert(job_id, a)
    \/ \E job_id \in StoreIds : StoreUpdateStarted(job_id)
    \/ \E job_id \in StoreIds, c \in QueueCompletions : StoreUpdateComplete(job_id, c)
    \/ TickQueue

SpecQueue == InitStore /\ [][NextQueue]_vars

-----------------------------------------------------------------------------
(* Batch jobs: their submission, their run and their status *)

NextBatch ==
    \/ \E documents \in Batches, x_user_id \in SubmitHeaders :
          CreateBatchJob(documents, x_user_id)
    \/ \E job_id \in JobIds : CreateJobRespond(job_id)
    \/ \E job_id \in JobIds : WorkerStart(job_id)
    \/ \E job_id \in JobIds : WorkerRun(job_id)
    \/ \E job_id \in JobIds : WorkerReturn(job_id)
    \/ \E job_id \in JobIds : GetBatchStatus(job_id)

SpecBatch == Init /\ [][NextBatch]_vars

-----------------------------------------------------------------------------
(* The four endpoints that take uploads *)

NextRoutes ==
    \/ \E document \in RouteDocs, x_user_id \in SubmitHeaders : CreateSingleJob(document, x_user_id)
    \/ \E documents \in RouteBatches, x_user_id \in SubmitHeaders :
          CreateBatchJob(documents, x_user_id)
    \/ \E job_id \in JobIds : CreateJobRespond(job_id)
    \/ \E document \in RouteDocs : ConvertSingleDocument(document)
    \/ \E documents \in RouteBatches : ConvertMultipleDocuments(documents)

\* With the audit package of this repository the import of route.py succeeds
InitRoutes == Init /\ AUDIT_ENABLED = [route |-> TRUE, tasks |-> FALSE]

SpecRoutes == InitRoutes /\ [][NextRoutes]_vars

-----------------------------------------------------------------------------
(* guess_format on its own: every call with bytes and a file name            *)

GuessNames ==
    {<<"a",".","c","s","v">>, <<"a",".","C","S","V">>, <<"a",".","C","s","v">>,
     <<".","c","s","v">>, <<"a",".","p","d","f",".","c","S","V">>,
     <<"c","s","v">>, <<"a",".","c","s","v",".","p","d","f">>,
     <<"a",".","c","s">>, <<"a",".","t","s","v">>, <<"a",".","p","d","f">>,
     <<"a",".","d","o","c">>, <<"a">>}

GuessSniffs == {None, Some("application/pdf"), Some("application/zip"), Some("image/png"), Some("application/msword")}

\* b"" is the content of size 0: nothing to sniff and no markup
GuessContents ==
    {Content(0, None, None, TRUE, "")}
        \cup {Content(2, sniff, html, FALSE, "") : sniff \in GuessSniffs, html \in {None, Some("text/html")}}

GuessFormat(content, filename) ==
    /\ resp' = [kind |-> "guess_format", content |-> content, filename |-> filename,
                format |-> guess_format(content, filename)]
    /\ UNCHANGED <<AUDIT_ENABLED, conversions, tasks, api, now>>

NextGuess == \E content \in GuessContents, filename \in GuessNames : GuessFormat(content, filename)

SpecGuess == InitStore /\ [][NextGuess]_vars

-----------------------------------------------------------------------------
(* Properties of the audit store (SpecStore)                                 *)

Users == {"u1", "u2"}

\* C1: once the audit record of a job_id is SUCCESS or FAILURE, no later write
\* through update_job_status, update_job_started or update_job_complete
\* changes its status.
C1_StatusMonotonic ==
    [][\A job_id \in DOMAIN conversions :
          conversions[job_id].status \in Terminal
              => conversions'[job_id].status = conversions[job_id].status]_vars

\* C4: get_job called with a user id returns None for a job_id that has no
\* record and for a job_id whose record belongs to another user alike, so the
\* two cases cannot be told apart.
C4_GetJobHidesForeignRecords ==
    \A job_id \in StoreIds, user_id \in Users :
        (job_id \notin DOMAIN conversions \/ conversions[job_id].user_id # user_id)
            => get_job(conversions, job_id, Some(user_id)) = None

\* A record of u1 that u1 reads and u2 does not, beside a job_id with no record
C4_Witness ==
    \E job_id \in StoreIds, missing \in StoreIds :
        /\ job_id \in DOMAIN conversions
        /\ conversions[job_id].user_id = "u1"
        /\ missing \notin DOMAIN conversions
        /\ get_job(conversions, job_id, Some("u1")) # None
        /\ get_job(conversions, job_id, Some("u2")) = get_job(conversions, missing, Some("u2"))

-----------------------------------------------------------------------------
(* Properties of the conversion jobs (Spec)                                  *)

\* The step is a status request, answered in the state the step starts from
StatusStep ==
    /\ resp'.kind = "GET /conversion-jobs/{job_id}"
    /\ (resp.kind # resp'.kind \/ resp' # resp)

\* The step is a submission answered with an error
RejectStep ==
    /\ resp'.kind \in {"POST /conversion-jobs", "POST /batch-conversion-jobs"}
    /\ (resp.kind # resp'.kind \/ resp' # resp)

\* The step is the body of the single-document task of job_id, run for a user
\* by a worker that imported the audit package, on a job whose record exists
AuditedRunStep(job_id) ==
    /\ tasks[job_id].kind = "single"
    /\ tasks[job_id].pc = "running"
    /\ tasks'[job_id].pc = "converted"
    /\ AUDIT_ENABLED.tasks
    /\ TruthyStr(tasks[job_id].user_id)
    /\ job_id \in DOMAIN conversions

\* The fields of a status response that come from the audit record
AuditDerived(body) ==
    <<body.filename, body.file_type, body.file_size, body.created_at, body.completed_at,
      body.pages, body.processing_time_ms>>

\* C2: when the conversion returns a result that carries a non-empty error,
\* convert_document_task records the job as FAILURE with that error text and
\* does not call the postprocessing collaborator (taken in the steps where the
\* completion write itself did not fail).
C2_LogicalFailureRecorded ==
    [][\A job_id \in DOMAIN tasks :
          (/\ AuditedRunStep(job_id)
           /\ ~tasks'[job_id].raised
           /\ TruthyStr(tasks'[job_id].results[1].error)
           /\ \A w \in tasks'[job_id].warnings : w.what = "started")
          => (/\ conversions'[job_id].status = "FAILURE"
              /\ conversions'[job_id].error = tasks'[job_id].results[1].error
              /\ tasks'[job_id].post = "not_called")]_vars

\* C3: a status request made with no X-User-ID, or with a user id that is
\* not the owner's, for a job that has an audit record, returns none of the
\* fields taken from the audit record.
C3_StatusScopedToCaller ==
    [][StatusStep =>
          LET job_id == resp'.request.job_id
              x_user_id == resp'.request.x_user_id
          IN  (/\ job_id \in DOMAIN conversions
               /\ x_user_id # Some(conversions[job_id].user_id))
              => \A i \in 1..7 : AuditDerived(resp'.body)[i] = None]_vars

\* C5: whenever the conversion produced a clean result, whatever the
\* postprocessing collaborator did, the worker records SUCCESS with the pages
\* of the result, with empty summary, category, tags and language when the
\* postprocessing gave no analysis, and the task returns the result (taken in
\* the steps where the audit store did not refuse the completion write).
C5_PostprocessingNeverFailsTheJob ==
    [][\A job_id \in DOMAIN tasks :
          (/\ AuditedRunStep(job_id)
           /\ ~tasks'[job_id].raised
           /\ ~TruthyStr(tasks'[job_id].results[1].error)
           /\ \A w \in tasks'[job_id].warnings : w.what = "complete" => w.why # "db")
          => (/\ tasks'[job_id].results # <<>>
              /\ conversions'[job_id].status = "SUCCESS"
              /\ conversions'[job_id].pages = tasks'[job_id].results[1].pages
              /\ tasks'[job_id].post # "result"
                    => /\ conversions'[job_id].summary = None
                       /\ conversions'[job_id].category = None
                       /\ conversions'[job_id].tags = None
                       /\ conversions'[job_id].language = None)]_vars

\* What the queue sees of a run of a task
Outcome(r) == [raised |-> r.raised, results |-> r.results, exc |-> r.exc]

NoRepeat(calls) == \A a, b \in 1..Len(calls) : a # b => calls[a] # calls[b]

\* What the conversion alone gives for the documents of a task
ConversionOutcomes(task) ==
    IF task.kind = "single"
    THEN {[raised |-> Converted[task.docs[1]][collab].raised,
           results |-> IF Converted[task.docs[1]][collab].raised THEN <<>>
                       ELSE <<Converted[task.docs[1]][collab].result>>,
           exc |-> Converted[task.docs[1]][collab].exc] : collab \in CollabOutcomes}
    ELSE {Outcome(ConvertedBatch[task.docs][collabs]) :
             collabs \in [1..Len(task.docs) -> BatchCollabOutcomes]}

\* C6: for the single and the batch task, whichever audit writes fail, what
\* the task returns or raises is what the same run returns or raises with all
\* audit writes succeeding, namely the outcome of the conversion, and no
\* audit write is made twice.
C6_AuditFailuresSilent ==
    \A job_id \in DOMAIN tasks :
        LET task == tasks[job_id] IN
        /\ NoRepeat(task.calls)
        /\ task.pc = "converted" => Outcome(task) \in ConversionOutcomes(task)
        /\ (task.pc = "running" /\ task.kind = "single") =>
              \A collab \in CollabOutcomes, llm \in LlmResponses :
                 LET failing == convert_document_task(conversions, AUDIT_ENABLED.tasks,
                                    job_id, task.user_id, task.docs[1], collab, llm, TRUE,
                                    task.start_time, now)
                     succeeding == convert_document_task(conversions, AUDIT_ENABLED.tasks,
                                    job_id, task.user_id, task.docs[1], collab, llm, FALSE,
                                    task.start_time, now)
                 IN  /\ Outcome(failing) = Outcome(succeeding)
                     /\ NoRepeat(task.calls \o failing.calls)
        /\ (task.pc = "running" /\ task.kind = "batch") =>
              \A collabs \in [1..Len(task.docs) -> BatchCollabOutcomes] :
                 LET failing == convert_documents_task(conversions, AUDIT_ENABLED.tasks,
                                    job_id, task.user_id, task.docs, collabs, TRUE,
                                    task.start_time, now)
                     succeeding == convert_documents_task(conversions, AUDIT_ENABLED.tasks,
                                    job_id, task.user_id, task.docs, collabs, FALSE,
                                    task.start_time, now)
                 IN  /\ Outcome(failing) = Outcome(succeeding)
                     /\ NoRepeat(task.calls \o failing.calls)

\* A task whose start write and completion write both failed and that
\* returned its result all the same
C6_Witness ==
    \E job_id \in DOMAIN tasks :
        /\ tasks[job_id].pc = "converted"
        /\ tasks[job_id].warnings = {Warning("started", "db"), Warning("complete", "db")}
        /\ ~tasks[job_id].raised
        /\ tasks[job_id].results # <<>>
        /\ tasks[job_id].calls = <<"update_job_started", "update_job_complete">>

\* The submission was attempted with an audit insert
InsertAttempted(job_id) == AUDIT_ENABLED.route /\ TruthyStr(tasks[job_id].user_id)

\* C7: every accepted submission, single or batch, has enqueued its job, and
\* its response carries the job id the queue issued and status PENDING,
\* whether the audit insert succeeded, failed or was skipped; the only error
\* responses of a submission are the rejections of its documents.
C7_SubmissionSurvivesAuditFailure ==
    /\ Len(api) = Len(tasks)
    /\ \A job_id \in DOMAIN api :
          api[job_id].pc = "done" =>
             LET r == api[job_id].response[1] IN
             /\ r.request = tasks[job_id].docs
             /\ {"job_id", "status"} \subseteq DOMAIN r.body
             /\ r.body.job_id = job_id
             /\ r.body.status = "PENDING"
    /\ resp.kind \in {"POST /conversion-jobs", "POST /batch-conversion-jobs"} =>
          \E i \in 1..Len(resp.request) : RejectionOf[resp.request[i]] = Some(resp.body)

\* A submission whose audit insert was attempted and failed, answered PENDING
C7_Witness ==
    \E job_id \in DOMAIN api :
        /\ api[job_id].pc = "done"
        /\ InsertAttempted(job_id)
        /\ job_id \notin DOMAIN conversions
        /\ api[job_id].response[1].body.status = "PENDING"
        /\ tasks[job_id].pc = "queued"

\* C8: the status of a response follows the queue's state: a job id the queue
\* does not know, a queued job and a job a worker is running are IN_PROGRESS
\* with no error; a succeeded single-document job is SUCCESS with its result,
\* unless the result carries an error, and then FAILURE with that error; a
\* job in any other final state is FAILURE.
C8_StatusFromQueueState ==
    [][StatusStep =>
          LET job_id == resp'.request.job_id
              body == resp'.body
          IN  IF job_id \notin DOMAIN tasks \/ tasks[job_id].pc # "done"
              THEN body.status = "IN_PROGRESS" /\ body.error = None /\ body.result = None
              ELSE IF tasks[job_id].state # "SUCCESS"
              THEN body.status = "FAILURE"
              ELSE tasks[job_id].kind = "single" =>
                      IF TruthyStr(tasks[job_id].results[1].error)
                      THEN /\ body.status = "FAILURE"
                           /\ body.error = tasks[job_id].results[1].error
                      ELSE /\ body.status = "SUCCESS"
                           /\ body.result = Some(tasks[job_id].results[1])]_vars

\* A succeeded job whose result carries an error, reported FAILURE with it
C8_Witness ==
    /\ resp.kind = "GET /conversion-jobs/{job_id}"
    /\ resp.request.job_id \in DOMAIN tasks
    /\ tasks[resp.request.job_id].state = "SUCCESS"
    /\ tasks[resp.request.job_id].kind = "single"
    /\ TruthyStr(tasks[resp.request.job_id].results[1].error)
    /\ resp.body.status = "FAILURE"
    /\ resp.body.error = tasks[resp.request.job_id].results[1].error

\* C9: a job submitted without a user id never has an audit record and no
\* audit write is made for it by the submission or by the worker; while the
\* queue has not finished it, a status response for it holds the job id and a
\* status that is not final, and nothing else.
C9_AnonymousJobsLeaveNoRecord ==
    [][\A job_id \in DOMAIN tasks' :
          tasks'[job_id].user_id = None =>
             /\ job_id \notin DOMAIN conversions'
             /\ tasks'[job_id].calls = <<>>
             /\ (/\ StatusStep
                 /\ resp'.request.job_id = job_id
                 /\ job_id \in DOMAIN tasks
                 /\ tasks[job_id].pc # "done")
                => /\ resp'.body.job_id = job_id
                   /\ resp'.body.status \in {"PENDING", "IN_PROGRESS"}
                   /\ resp'.body.result = None
                   /\ resp'.body.error = None
                   /\ \A i \in 1..7 : AuditDerived(resp'.body)[i] = None]_vars

\* An anonymous job that a worker with the audit package has run, with no
\* record, after a status request that was answered IN_PROGRESS
C9_Witness ==
    \E job_id \in DOMAIN tasks :
        /\ tasks[job_id].user_id = None
        /\ AUDIT_ENABLED.route /\ AUDIT_ENABLED.tasks
        /\ tasks[job_id].pc = "converted"
        /\ api[job_id].pc = "done"
        /\ job_id \notin DOMAIN conversions
        /\ resp.kind = "GET /conversion-jobs/{job_id}"
        /\ resp.request.job_id = job_id
        /\ resp.body = ConversationJobResult(job_id, "IN_PROGRESS", None, None)

\* The documents that pass the checks of the submission handlers
Accepted ==
    [doc \in Docs |-> /\ ~is_legacy_office_format(doc.filename)
                      /\ is_file_format_supported(doc.content, doc.filename)]

\* C10: a submission answered with a rejection leaves the queue and the
\* audit store as they were, and no job of the queue holds a document of a
\* legacy or unsupported format: a batch with one such document is rejected
\* before anything of it is enqueued.
C10_RejectionLeavesNoTrace ==
    [][/\ RejectStep => UNCHANGED <<tasks, conversions, api>>
       /\ \A job_id \in DOMAIN tasks' :
             \A i \in 1..Len(tasks'[job_id].docs) : Accepted[tasks'[job_id].docs[i]]]_vars

\* A batch rejected for its second document, with nothing enqueued or recorded
C10_Witness ==
    /\ resp.kind = "POST /batch-conversion-jobs"
    /\ Len(resp.request) = 2
    /\ Accepted[resp.request[1]]
    /\ ~Accepted[resp.request[2]]
    /\ resp.body.status_code = 400
    /\ tasks = <<>>
    /\ conversions = <<>>

-----------------------------------------------------------------------------
(* Cancellation *)

CancelStep ==
    /\ resp'.kind = "POST /conversion-jobs/batch/cancel"
    /\ (resp.kind # resp'.kind \/ resp' # resp)

\* The ids of a request at the indices whose revoke call did not raise, in order
NotRaised(task_ids, raising) ==
    LET F[i \in 0..Len(task_ids)] ==
            IF i = 0 THEN <<>>
            ELSE IF i \in raising THEN F[i - 1] ELSE Append(F[i - 1], task_ids[i])
    IN  F[Len(task_ids)]

\* C11: a cancel request answers with exactly the requested ids whose revoke call
\* did not raise, in request order, and with their number, whatever calls raised;
\* every such id of a queued task is marked revoked and of a running task is
\* killed, also when the revoke of an earlier id raised
C11_CancelAttemptsEveryId ==
    [][CancelStep =>
          LET request == resp'.request
              body    == resp'.body
          IN  /\ {"cancelled_count", "task_ids"} \subseteq DOMAIN body
              /\ body.task_ids = NotRaised(request.task_ids, request.raising)
              /\ body.cancelled_count = Len(body.task_ids)
              /\ \A i \in (1..Len(request.task_ids)) \ request.raising :
                    LET task_id == request.task_ids[i]
                    IN  task_id \in DOMAIN tasks =>
                          /\ tasks[task_id].pc = "queued" => tasks'[task_id].revoked
                          /\ tasks[task_id].pc \in {"running", "completion", "converted"}
                                => tasks'[task_id].state = "REVOKED"]_vars

\* The revoke of the first id raised, the second id was still revoked and reported
C11_Witness ==
    /\ resp.kind = "POST /conversion-jobs/batch/cancel"
    /\ resp.request.raising = {1}
    /\ Len(resp.request.task_ids) = 2
    /\ resp.body.task_ids = <<1>>
    /\ resp.body.cancelled_count = 1
    /\ 1 \in DOMAIN tasks
    /\ tasks[1].state = "REVOKED"

Range(seq) == {seq[i] : i \in DOMAIN seq}

\* C12: a cancel request leaves every audit record as it was, and the record of
\* a task that was killed or discarded is never written afterwards: it keeps
\* the status it had, terminal or not
C12_CancelNeverWritesAudit ==
    [][/\ CancelStep => conversions' = conversions
       /\ \A job_id \in DOMAIN tasks \cap DOMAIN conversions :
             tasks[job_id].state = "REVOKED" => conversions'[job_id] = conversions[job_id]]_vars

\* A job the response reports as cancelled, whose task was killed after the worker
\* wrote SUCCESS
C12_Witness ==
    /\ resp.kind = "POST /conversion-jobs/batch/cancel"
    /\ 1 \in Range(resp.body.task_ids)
    /\ 1 \in DOMAIN tasks \cap DOMAIN conversions
    /\ tasks[1].state = "REVOKED"
    /\ conversions[1].status = "SUCCESS"

-----------------------------------------------------------------------------
(* Postprocessing and job completion *)

C14_TerminalRecordNeverRewritten ==
    [][\A job_id \in DOMAIN conversions :
          conversions[job_id].status \in Terminal
              => /\ job_id \in DOMAIN conversions'
                 /\ conversions'[job_id] = conversions[job_id]]_vars

\* The worker wrote a terminal record and went on to return
C14_Witness ==
    \E job_id \in DOMAIN conversions \cap DOMAIN tasks :
        /\ conversions[job_id].status \in Terminal
        /\ conversions[job_id].completed_at # None
        /\ tasks[job_id].pc = "done"
        /\ tasks[job_id].state \in Terminal

\* C16: with submissions and worker runs only, a record has an error exactly
\* when its status is FAILURE
C16_ErrorIffFailure ==
    \A job_id \in DOMAIN conversions :
        conversions[job_id].error # None <=> conversions[job_id].status = "FAILURE"

\* A record the worker completed as FAILURE with the text of the exception
C16_Witness ==
    \E job_id \in DOMAIN conversions :
        /\ conversions[job_id].status = "FAILURE"
        /\ conversions[job_id].error = Some("crash")

EnrichmentFields == {"summary", "category", "tags", "language"}

\* C17: a record that is PENDING, IN_PROGRESS or FAILURE has no summary, no
\* category, no tags and no language
C17_EnrichmentOnlyOnSuccess ==
    \A job_id \in DOMAIN conversions :
        conversions[job_id].status # "SUCCESS"
            => \A f \in EnrichmentFields : conversions[job_id][f] = None

\* The three kinds of record the claim is about, next to an enriched SUCCESS:
\* here a job whose postprocessing gave a result but whose record is not SUCCESS
C17_Witness ==
    \E job_id \in DOMAIN conversions \cap DOMAIN tasks :
        /\ conversions[job_id].status = "IN_PROGRESS"
        /\ tasks[job_id].pc = "done"
        /\ tasks[job_id].post = "result"

-----------------------------------------------------------------------------
(* The audit store *)

\* A step of the store specification that is the given call on the given job_id
StoreCallStep(call, job_id) ==
    /\ now' = now
    /\ resp'.kind = "audit"
    /\ resp'.call = call
    /\ resp'.job_id = job_id

\* C15: on an existing record update_job_complete leaves completed_at set and
\* update_job_started leaves started_at set; a record that has just been
\* inserted has neither; started_at is set by no call but update_job_started
\* and completed_at by no call but update_job_complete
C15_TimestampsSetByTheirUpdate ==
    [][\A job_id \in StoreIds :
          /\ job_id \in DOMAIN conversions /\ StoreCallStep("update_job_complete", job_id)
                => conversions'[job_id].completed_at # None
          /\ job_id \in DOMAIN conversions /\ StoreCallStep("update_job_started", job_id)
                => conversions'[job_id].started_at # None
          /\ job_id \notin DOMAIN conversions /\ job_id \in DOMAIN conversions'
                => /\ conversions'[job_id].started_at = None
                   /\ conversions'[job_id].completed_at = None
          /\ job_id \in DOMAIN conversions /\ job_id \in DOMAIN conversions'
                => /\ conversions[job_id].started_at = None
                        /\ conversions'[job_id].started_at # None
                      => StoreCallStep("update_job_started", job_id)
                   /\ conversions[job_id].completed_at = None
                        /\ conversions'[job_id].completed_at # None
                      => StoreCallStep("update_job_complete", job_id)]_vars

\* A record completed without ever having been started: completed_at is set,
\* started_at is still null
C15_Witness ==
    \E job_id \in DOMAIN conversions :
        /\ resp.kind = "audit" /\ resp.call = "update_job_complete" /\ resp.job_id = job_id
        /\ conversions[job_id].completed_at # None
        /\ conversions[job_id].started_at = None

InsertedFields == {"user_id", "filename", "file_type", "file_size", "created_at"}

\* C18: a record keeps its job_id, user_id, filename, file_type, file_size and
\* created_at under every call of the store, and no record has a null user_id
C18_InsertedFieldsNeverChange ==
    [][/\ \A job_id \in DOMAIN conversions :
             /\ job_id \in DOMAIN conversions'
             /\ \A f \in InsertedFields : conversions'[job_id][f] = conversions[job_id][f]
       /\ \A job_id \in DOMAIN conversions' : conversions'[job_id].user_id \in Users]_vars

\* A record inserted at time 0 that was started and completed at time 1
C18_Witness ==
    \E job_id \in DOMAIN conversions :
        /\ conversions[job_id].user_id = "u2"
        /\ conversions[job_id].created_at = Some(SqlTimestamp(0))
        /\ conversions[job_id].started_at = Some(IsoTimestamp(TickSeconds))
        /\ conversions[job_id].completed_at = Some(IsoTimestamp(TickSeconds))

\* C19: insert_job on a job_id that has a record raises and leaves the table as
\* it was, insert_job on a new job_id adds its record, and no call removes a record
C19_OneRecordPerJobId ==
    [][/\ DOMAIN conversions \subseteq DOMAIN conversions'
       /\ \A job_id \in StoreIds :
             StoreCallStep("insert_job", job_id)
                => IF job_id \in DOMAIN conversions
                   THEN resp'.raised /\ conversions' = conversions
                   ELSE /\ ~resp'.raised
                        /\ DOMAIN conversions' = DOMAIN conversions \cup {job_id}
                        /\ conversions'[job_id].status = "PENDING"]_vars

\* A completed record that a second insert_job of its job_id did not touch
C19_Witness ==
    /\ resp.kind = "audit" /\ resp.call = "insert_job" /\ resp.raised
    /\ resp.job_id \in DOMAIN conversions
    /\ conversions[resp.job_id].status = "SUCCESS"

Updaters == {"update_job_status", "update_job_started", "update_job_complete"}

\* C20: an update of a job_id that has no record raises nothing and leaves the
\* table as it was; an update of a job_id that has a record changes no other
\* record and adds none
C20_UpdatesTouchOnlyTheirRecord ==
    [][\A job_id \in StoreIds, call \in Updaters :
          StoreCallStep(call, job_id)
             => /\ DOMAIN conversions' = DOMAIN conversions
                /\ \A other \in DOMAIN conversions \ {job_id} :
                      conversions'[other] = conversions[other]
                /\ job_id \notin DOMAIN conversions
                      => ~resp'.raised /\ conversions' = conversions]_vars

\* update_job_complete was called for a job_id without a record while another
\* job_id has one
C20_Witness ==
    /\ resp.kind = "audit" /\ resp.call = "update_job_complete" /\ ~resp.raised
    /\ resp.job_id \notin DOMAIN conversions
    /\ DOMAIN conversions # {}

-----------------------------------------------------------------------------
(* The queries of the audit store *)

JobIdsOf(result) == {result[i].job_id : i \in DOMAIN result}

NoJobTwice(result) == \A i, k \in DOMAIN result : i # k => result[i].job_id # result[k].job_id

\* C21: get_active_jobs(user_id) returns each PENDING or IN_PROGRESS record of
\* that user once and nothing else, the older created_at first
C21_ActiveJobsOfUser ==
    \A user_id \in Users :
        \A result \in get_active_jobs(conversions, user_id) :
            /\ JobIdsOf(result) = {j \in DOMAIN conversions :
                                      /\ conversions[j].user_id = user_id
                                      /\ conversions[j].status \in {"PENDING", "IN_PROGRESS"}}
            /\ NoJobTwice(result)
            /\ \A i \in DOMAIN result : result[i].status = conversions[result[i].job_id].status
            /\ \A i, k \in DOMAIN result :
                  i < k => result[i].created_at[1].t <= result[k].created_at[1].t

\* Two active records of u1 inserted two hours apart, returned older first
C21_Witness ==
    /\ DOMAIN conversions = {1, 2}
    /\ \A j \in {1, 2} : conversions[j].user_id = "u1"
    /\ conversions[1].status = "IN_PROGRESS" /\ conversions[2].status = "PENDING"
    /\ conversions[1].created_at[1].t > conversions[2].created_at[1].t
    /\ \E result \in get_active_jobs(conversions, "u1") :
          Len(result) = 2 /\ result[1].job_id = 2 /\ result[2].job_id = 1

\* The days arguments of get_user_history
HistoryDays == {0, 1}

\* C22: get_user_history(user_id, days) returns each SUCCESS or FAILURE record
\* of that user created no more than days days ago once and nothing else, the
\* newer created_at first; no record is in the active list and in the history
\* of a user at once
C22_HistoryOfUser ==
    \A user_id \in Users, days \in HistoryDays :
        \A result \in get_user_history(conversions, user_id, days, now) :
            /\ JobIdsOf(result) =
                  {j \in DOMAIN conversions :
                      /\ conversions[j].user_id = user_id
                      /\ conversions[j].status \in {"SUCCESS", "FAILURE"}
                      /\ conversions[j].created_at[1].t >= now - days * SecondsPerDay}
            /\ NoJobTwice(result)
            /\ \A i, k \in DOMAIN result :
                  i < k => result[i].created_at[1].t >= result[k].created_at[1].t
            /\ \A active \in get_active_jobs(conversions, user_id) :
                  JobIdsOf(active) \cap JobIdsOf(result) = {}

\* Two terminal records of u1 created two hours apart: a window of no days
\* returns the one created now, a window of one day both, the newer first
C22_Witness ==
    /\ DOMAIN conversions = {1, 2}
    /\ \A j \in {1, 2} : conversions[j].user_id = "u1" /\ conversions[j].status \in Terminal
    /\ conversions[1].created_at[1].t < now
    /\ conversions[2].created_at[1].t = now
    /\ \E result \in get_user_history(conversions, "u1", 0, now) :
          Len(result) = 1 /\ result[1].job_id = 2
    /\ \E result \in get_user_history(conversions, "u1", 1, now) :
          Len(result) = 2 /\ result[1].job_id = 2 /\ result[2].job_id = 1

\* q occurs in text; with fold, letters are compared without their case
Occurs(q, text, fold) ==
    \E k \in 0..(Len(text) - Len(q)) :
        \A i \in 1..Len(q) :
            IF fold THEN LowerChar(text[k + i]) = LowerChar(q[i]) ELSE text[k + i] = q[i]

\* Occurs over the queries and the texts of the model, computed once
OccursOf ==
    [fold \in BOOLEAN |->
        [q \in Queries |-> [text \in SearchedTexts |-> Occurs(q, text, fold)]]]

\* q occurs in the filename, the summary or the serialized tags of the record
OccursInSearched(q, row, fold) ==
    \/ OccursOf[fold][q][row.filename]
    \/ row.summary # None /\ OccursOf[fold][q][Chars(row.summary[1])]
    \/ row.tags # None /\ OccursOf[fold][q][row.tags[1]]

\* C23: every record search_user_history(user_id, q) returns belongs to user_id
\* and is SUCCESS or FAILURE; for a q without wildcards it has q, in some letter
\* case, in its filename, its summary or its tags, so that q in its error, its
\* category or its file_type alone does not return it
C23_SearchOnlyTerminalOwnThreeFields ==
    \A user_id \in Users, q \in Queries :
        \A result \in search_user_history(conversions, user_id, q) :
            \A i \in DOMAIN result :
                LET row == conversions[result[i].job_id]
                IN  /\ row.user_id = user_id
                    /\ row.status \in {"SUCCESS", "FAILURE"}
                    /\ q \in PlainQueries => OccursInSearched(q, row, TRUE)

\* A SUCCESS record of u1 with category report: the letter r finds nothing,
\* the summary's letter finds the record; a PENDING record a.pdf of u1 is not
\* found by the letter a
C23_Witness ==
    /\ DOMAIN conversions = {1, 2}
    /\ \A j \in {1, 2} : conversions[j].user_id = "u1"
    /\ conversions[1].status = "SUCCESS" /\ conversions[1].category = Some("report")
    /\ conversions[2].status = "PENDING"
    /\ search_user_history(conversions, "u1", <<"r">>) = {<<>>}
    /\ \A result \in search_user_history(conversions, "u1", <<"a">>) :
          JobIdsOf(result) = {1}
    /\ \A result \in search_user_history(conversions, "u1", <<"s">>) :
          JobIdsOf(result) = {1}

\* C24: for every query string q, search_user_history(user_id, q) returns
\* exactly the SUCCESS and FAILURE records of user_id in which q occurs as it
\* is written in the filename, the summary or the serialized tags, the newer
\* created_at first
C24_SearchIsLiteralSubstring ==
    \A user_id \in Users, q \in Queries :
        \A result \in search_user_history(conversions, user_id, q) :
            /\ JobIdsOf(result) =
                  {j \in DOMAIN conversions :
                      /\ conversions[j].user_id = user_id
                      /\ conversions[j].status \in {"SUCCESS", "FAILURE"}
                      /\ OccursInSearched(q, conversions[j], FALSE)}
            /\ NoJobTwice(result)
            /\ \A i, k \in DOMAIN result :
                  i < k => result[i].created_at[1].t >= result[k].created_at[1].t

RECURSIVE SumOf(_)
\* The sum of the values of a function
SumOf(f) ==
    IF DOMAIN f = {} THEN 0
    ELSE LET x == CHOOSE y \in DOMAIN f : TRUE
         IN  f[x] + SumOf([y \in DOMAIN f \ {x} |-> f[y]])

\* The values of get_user_stats but for by_file_type are those of the user's records
UserStatsCounts(user_id) ==
    LET stats == get_user_stats(conversions, user_id)
        own == {j \in DOMAIN conversions : conversions[j].user_id = user_id}
        Value(j, column) ==
            IF conversions[j][column] = None THEN 0 ELSE conversions[j][column][1]
    IN  /\ stats.total_jobs = Cardinality(own)
        /\ stats.success_count = Cardinality({j \in own : conversions[j].status = "SUCCESS"})
        /\ stats.failure_count = Cardinality({j \in own : conversions[j].status = "FAILURE"})
        /\ stats.total_pages = SumOf([j \in own |-> Value(j, "pages")])
        /\ stats.total_files_size = SumOf([j \in own |-> Value(j, "file_size")])
        /\ stats.total_processing_time_ms
              = SumOf([j \in own |-> Value(j, "processing_time_ms")])

\* C25: get_user_stats(user_id) counts and sums over the records of user_id of
\* every status and of no other user, with 0 for a user without records, and
\* the counts of by_file_type add up to total_jobs
C25_UserStatsOverAllOwnRecords ==
    \A user_id \in Users :
        /\ UserStatsCounts(user_id)
        /\ SumOf(get_user_stats(conversions, user_id).by_file_type)
              = get_user_stats(conversions, user_id).total_jobs

NoPending == \A j \in DOMAIN conversions : conversions[j].status # "PENDING"

InProgress == {j \in DOMAIN conversions : conversions[j].status = "IN_PROGRESS"}

\* C26, as stated: whenever no record is PENDING, get_queue_stats returns a
\* null oldest_pending_minutes, pending_count 0, in_progress_count 0 and
\* total_active = pending_count + in_progress_count
C26_IdleQueueStats ==
    LET stats == get_queue_stats(conversions, now)
    IN  NoPending => /\ stats.oldest_pending_minutes = None
                     /\ stats.pending_count = 0
                     /\ stats.in_progress_count = 0
                     /\ stats.total_active = stats.pending_count + stats.in_progress_count

\* C26, amended: whenever no record is PENDING, get_queue_stats returns a null
\* oldest_pending_minutes, pending_count 0, in_progress_count the number of
\* IN_PROGRESS records (0 when there is none) and total_active =
\* pending_count + in_progress_count
C26_NoPendingQueueStats ==
    LET stats == get_queue_stats(conversions, now)
    IN  NoPending => /\ stats.oldest_pending_minutes = None
                     /\ stats.pending_count = 0
                     /\ stats.in_progress_count = Cardinality(InProgress)
                     /\ stats.total_active = stats.pending_count + stats.in_progress_count

\* No PENDING record, one IN_PROGRESS record and one completed record
C26_Witness ==
    /\ NoPending
    /\ Cardinality(InProgress) = 1
    /\ \E j \in DOMAIN conversions : conversions[j].status \in Terminal
    /\ get_queue_stats(conversions, now).oldest_pending_minutes = None
    /\ get_queue_stats(conversions, now).total_active = 1

\* The SUCCESS records completed no more than an hour ago
CompletedWithinTheHour ==
    {j \in DOMAIN conversions :
        /\ conversions[j].status = "SUCCESS"
        /\ conversions[j].completed_at # None
        /\ conversions[j].completed_at[1].t >= now - SecondsPerHour}

\* C27: avg_wait_time_minutes of get_queue_stats is the average of completed_at
\* minus created_at over the SUCCESS records completed no more than an hour
\* ago, and 0 when there is none
C27_AverageOverTrailingHour ==
    get_queue_stats(conversions, now).avg_wait_time_minutes
        = AvgMinutes(WaitSeconds(conversions, CompletedWithinTheHour),
                     Cardinality(CompletedWithinTheHour))

\* The tag lists a caller passes to update_job_complete
TagLists == {c.tags : c \in {d \in StoreCompletions : d.tags.ty = "list"}}

\* The records of job_id that get_job, get_user_history and
\* search_user_history return from tbl to the record's owner
ReadBack(tbl, job_id) ==
    LET user_id == tbl[job_id].user_id
        listed == UNION {{l[i] : i \in 1..Len(l)} : l \in get_user_history(tbl, user_id, 1, now) \cup UNION {search_user_history(tbl, user_id, q) : q \in Queries}}
    IN  {get_job(tbl, job_id, None)[1]} \cup {s \in listed : s.job_id = job_id}

\* C28: when update_job_complete(job_id, ..., tags=t) has acted on an existing
\* record, with t a list, every record of job_id read back by get_job, history
\* or search has tags equal to t, the empty list included
C28_TagsRoundTrip ==
    [][\A job_id \in DOMAIN conversions : \A c \in StoreCompletions :
           (/\ StoreCallStep("update_job_complete", job_id)
            /\ conversions' = update_job_complete(conversions, job_id, c, now)
            /\ c.tags \in TagLists)
               => \A s \in ReadBack(conversions', job_id) : s.tags = Some(c.tags)]_vars

\* ".csv" in every spelling of upper and lower case
CsvSuffixes == {<<".", c, s, v>> : c \in {"c", "C"}, s \in {"s", "S"}, v \in {"v", "V"}}

EndsInCsv(filename) == \E suffix \in CsvSuffixes : EndsWith(filename, suffix)

\* C29: guess_format answers CSV for every file name that ends in .csv, in
\* any case, whatever the content: empty, or sniffed as another format
C29_CsvByNameAlone ==
    (resp.kind = "guess_format" /\ EndsInCsv(resp.filename)) => resp.format = Some("csv")

\* A name in upper case with content sniffed as PDF has been classified
C29_Witness ==
    /\ resp.kind = "guess_format"
    /\ resp.filename = <<"a",".","C","S","V">>
    /\ resp.content.sniff = Some("application/pdf")
    /\ resp.format = Some("csv")

\* doc, xls and ppt in every spelling of upper and lower case
LegacySpellings ==
    {<<a, b, c>> : a \in {"d", "D"}, b \in {"o", "O"}, c \in {"c", "C"}}
        \cup {<<a, b, c>> : a \in {"x", "X"}, b \in {"l", "L"}, c \in {"s", "S"}}
        \cup {<<a, b, c>> : a \in {"p", "P"}, b \in {"p", "P"}, c \in {"t", "T"}}

EndsInLegacy(filename) ==
    \E spelling \in LegacySpellings : EndsWith(filename, <<".">> \o spelling)

UploadEndpoints ==
    {"POST /documents/convert", "POST /documents/batch-convert",
     "POST /conversion-jobs", "POST /batch-conversion-jobs"}

LegacyError(filename) == HTTPException(400, "Legacy Office format not supported", filename)

\* No file with a legacy name is handed to a converter or is in the queue
LegacyNeverHandedOn ==
    /\ resp.kind \in {"POST /documents/convert", "POST /documents/batch-convert"}
          => \A h \in resp.handed : ~EndsInLegacy(h.filename)
    /\ \A job_id \in DOMAIN tasks : \A i \in DOMAIN tasks[job_id].docs :
          ~EndsInLegacy(tasks[job_id].docs[i].filename)

\* C30, as stated: on each of the four endpoints a request with a file that
\* has a legacy name is answered with the legacy error, and the file is never
\* handed to a converter or the queue
C30_LegacyAlwaysRejected ==
    /\ resp.kind \in UploadEndpoints
          => \A i \in DOMAIN resp.request :
                EndsInLegacy(resp.request[i].filename)
                    => \E k \in DOMAIN resp.request :
                          /\ EndsInLegacy(resp.request[k].filename)
                          /\ resp.body = LegacyError(resp.request[k].filename)
    /\ LegacyNeverHandedOn

\* C30, amended: a file with a legacy name is answered with the legacy error
\* naming it when no earlier file of the request is rejected; whatever comes
\* before it the request is answered 400, and the file is never handed to a
\* converter or the queue
C30_LegacyRejectedWhenReached ==
    /\ resp.kind \in UploadEndpoints
          => \A i \in DOMAIN resp.request :
                EndsInLegacy(resp.request[i].filename)
                    => /\ (\A k \in 1..(i - 1) :
                              /\ ~EndsInLegacy(resp.request[k].filename)
                              /\ is_file_format_supported(resp.request[k].content, resp.request[k].filename))
                            => resp.body = LegacyError(resp.request[i].filename)
                       /\ \E k \in 1..i :
                              resp.body \in {LegacyError(resp.request[k].filename), HTTPException(400, "Unsupported file format", resp.request[k].filename)}
    /\ LegacyNeverHandedOn

\* A legacy name on content sniffed as PDF, second in a request for direct
\* conversion, has been rejected
C30_Witness ==
    /\ resp.kind = "POST /documents/batch-convert"
    /\ resp.request = <<DocPdf, DocXlsPdf>>
    /\ resp.body = LegacyError(DocXlsPdf.filename)

\* The body is an error of the taxonomy: a code of the closed set, a message
\* and a detail map
InTaxonomy(body) ==
    /\ DOMAIN body = {"error"}
    /\ DOMAIN body.error = {"code", "message", "details"}
    /\ body.error.code \in ErrorCode

\* C31: every failure the upload endpoints report is an error of the taxonomy,
\* and the rejection of a file with a legacy name is UNSUPPORTED_FORMAT
\* carrying the extension
C31_FailuresInTaxonomy ==
    resp.kind \in UploadEndpoints
        => /\ "status_code" \in DOMAIN resp.body => InTaxonomy(resp.body)
           /\ EndsInLegacy(resp.request[1].filename)
                 => resp.body = to_dict(legacy_format_error(resp.request[1].filename))

\* The worker makes an audit call for job_id in this step
WorkerWrites(job_id) ==
    /\ job_id \in DOMAIN tasks
    /\ Len(tasks'[job_id].calls) > Len(tasks[job_id].calls)

C33_AuditNeverChangesStatus ==
    [][StatusStep =>
          LET live == get_single_document_task_result(tasks, resp'.request.job_id)
          IN  /\ resp'.body.job_id = live.job_id
              /\ resp'.body.status = live.status
              /\ resp'.body.result = live.result
              /\ resp'.body.error = live.error]_vars

\* A response enriched from a record whose status column differs from the
\* status of the response
C33_Witness ==
    /\ resp.kind = "GET /conversion-jobs/{job_id}"
    /\ resp.request.job_id \in DOMAIN conversions
    /\ resp.body.filename = Some(conversions[resp.request.job_id].filename)
    /\ resp.body.status = "FAILURE"
    /\ conversions[resp.request.job_id].status = "SUCCESS"

\* The columns of an audit record that the status response shows
RecordShown(row) ==
    <<Some(row.filename), row.file_type, row.file_size, row.created_at, row.completed_at,
      row.pages, row.processing_time_ms>>

\* C34: when the handler audits and the record of the job is visible to the
\* requester, every column of it that is not null, 0 included, is in the
\* status response with the record's value (a response with no audit field at
\* all is that of a lookup that failed)
C34_NonNullColumnsShown ==
    [][(/\ StatusStep
        /\ AUDIT_ENABLED.route
        /\ get_job(conversions, resp'.request.job_id, resp'.request.x_user_id) # None)
          => \/ \A i \in 1..7 : AuditDerived(resp'.body)[i] = None
             \/ \A i \in 1..7 :
                   RecordShown(conversions[resp'.request.job_id])[i] # None
                      => AuditDerived(resp'.body)[i] = RecordShown(conversions[resp'.request.job_id])[i]]_vars

\* The documents of the request with what the handler handed them to
HandedDocs ==
    IF resp.kind \in {"POST /documents/convert", "POST /documents/batch-convert"}
    THEN {[doc |-> resp.request[i], h |-> h] : i \in DOMAIN resp.request, h \in resp.handed}
    ELSE {}

Classified(doc) == guess_format(doc.content, doc.filename)

\* C35: a document goes to the office converter exactly when the dispatcher
\* classifies it as DOCX, XLSX or PPTX
C35_OfficeRoutingFollowsClassification ==
    \A p \in HandedDocs :
        p.h.filename = p.doc.filename
            => (p.h.to = "office converter"
                   <=> Classified(p.doc) \in {Some("docx"), Some("xlsx"), Some("pptx")})

\* C36: a document sent to the general pipeline gets the layout
\* postprocessing exactly when the dispatcher classifies it as PDF or IMAGE
C36_LayoutPostprocessingFollowsClassification ==
    \A p \in HandedDocs :
        (p.h.filename = p.doc.filename /\ p.h.to = "general pipeline")
            => (p.h.layout <=> Classified(p.doc) \in {Some("pdf"), Some("image")})

\* The step is a batch status request, answered in the state it starts from
BatchStatusStep ==
    /\ resp'.kind = "GET /batch-conversion-jobs/{job_id}"
    /\ (resp.kind # resp'.kind \/ resp' # resp)

\* The step is the body of the batch task of job_id, run for a user by a
\* worker that audits, on a job whose record exists, with the store answering
BatchAuditedRunStep(job_id) ==
    /\ tasks[job_id].kind = "batch"
    /\ tasks[job_id].pc = "running"
    /\ tasks'[job_id].pc = "converted"
    /\ AUDIT_ENABLED.tasks
    /\ TruthyStr(tasks[job_id].user_id)
    /\ job_id \in DOMAIN conversions
    /\ tasks'[job_id].warnings = tasks[job_id].warnings

C38_RecordBecomesTerminal ==
    \A job_id \in JobIds :
        (/\ AUDIT_ENABLED.route /\ AUDIT_ENABLED.tasks
         /\ job_id \in DOMAIN tasks
         /\ tasks[job_id].pc = "done"
         /\ TruthyStr(tasks[job_id].user_id)
         /\ tasks[job_id].warnings = {}
         /\ job_id \in DOMAIN conversions)
            ~> (job_id \in DOMAIN conversions /\ conversions[job_id].status \in Terminal)

ResultOfDocument(result, doc) == result.filename \in {Stem(doc.filename), doc.filename}

\* A batch task whose conversion has returned its list of results
BatchReturned(job_id) ==
    /\ job_id \in DOMAIN tasks
    /\ tasks[job_id].kind = "batch"
    /\ tasks[job_id].pc \in {"converted", "done"}
    /\ ~tasks[job_id].raised

\* C40: a batch conversion that returns gives one result per input document,
\* and the i-th result is the result of the i-th document
C40_BatchResultsInInputOrder ==
    \A job_id \in JobIds :
        BatchReturned(job_id) =>
            /\ Len(tasks[job_id].results) = Len(tasks[job_id].docs)
            /\ \A i \in 1..Len(tasks[job_id].docs) :
                   ResultOfDocument(tasks[job_id].results[i], tasks[job_id].docs[i])

\* The count alone: one result per input document
C40_OneResultPerDocument ==
    \A job_id \in JobIds :
        BatchReturned(job_id) => Len(tasks[job_id].results) = Len(tasks[job_id].docs)

====
